---- MODULE Spec2Model ----
(***************************************************************************)
(* A model of the att-vault satellite/vessel visibility code:              *)
(*   - Scripts/intersect.py      the intersection kernel and compute_hits  *)
(*   - scripts/sathelpers.py     the TLE window planner                    *)
(*   - Scripts/interpolate_ais.py the vessel track interpolator            *)
(*                                                                         *)
(* Numbers.  The code computes in float64.  The model computes the same    *)
(* expressions exactly, on integers: a value that the code divides by a    *)
(* time difference td is carried as its numerator over td.  Times are      *)
(* whole seconds.  Positions are in units of 10 degrees and lie on the     *)
(* equator (lat = 0), where the haversine formula of the code reduces to   *)
(* the folded longitude difference; cos() is Bhaskara's rational           *)
(* approximation.  inf and nan are carried explicitly.                     *)
(***************************************************************************)
EXTENDS Integers, Sequences, FiniteSets, TLC

VARIABLES
    sat_track,      \* DataFrame of the satellite: rows [date_time, lat, lon, alt]
    vessel_points,  \* DataFrame of the pings: rows [mmsi_id, date_time, lat, lon]
    kernel_out,     \* what a direct call of _compute left behind
    hits_out,       \* what a call of compute_hits returned
    tle_times,      \* the epochs of one satellite's TLE records
    windows,        \* what get_compute_windows returned
    vessels,        \* the interpolator's input frame
    interp_out,     \* what interpolate_track returned
    archive,        \* the files of the track archive, by norad id
    store,          \* the processes using the archive, each with its store object
    history,        \* ghost: per norad id, what the archive was asked to hold
    build_out,      \* what a run of the track builder reported
    tle_table,      \* the rows of the TLE table tle_sorted
    records,        \* what get_all_tles returned
    fetch,          \* a stored track, a query on it and what the query returned
    pool,           \* the chunk workers of one parallel dispatch of compute_hits
    search,         \* a run of find_sats over the archive
    handles,        \* one SatelliteDataStore: its _handles and the files it has open
    fov             \* a field-of-view selection of the kernel

\* the variables of the archive, the builder and the TLE table
lateVars == <<fetch, pool, search, handles, fov>>
storeVars == <<archive, store, history, build_out, tle_table, records, lateVars>>

vars == <<sat_track, vessel_points, kernel_out, hits_out,
          tle_times, windows, vessels, interp_out,
          archive, store, history, build_out, tle_table, records,
          fetch, pool, search, handles, fov>>

\* A variable of a subsystem that a specification does not exercise.
Idle == [status |-> "idle"]
\* A call that has not been made yet.
NotCalled == [status |-> "not_called"]

\* the archive, the builder and the TLE table not exercised
LateIdle ==
    /\ fetch = Idle /\ pool = Idle /\ search = Idle
    /\ handles = Idle /\ fov = Idle
StoreIdle ==
    /\ archive = Idle /\ store = Idle /\ history = Idle
    /\ build_out = Idle /\ tle_table = Idle /\ records = Idle
    /\ LateIdle

(***************************************************************************)
(* Bounds of the model.                                                    *)
(***************************************************************************)
MaxTime == 3
MaxSat == 3
MaxPings == 4

(***************************************************************************)
(* Python values.                                                          *)
(***************************************************************************)
None == <<>>
Some(x) == <<x>>
\* Python's 0-based indexing into a sequence.
At(seq, idx) == seq[idx + 1]
\* seq[lo:hi] with 0 <= lo, hi <= len
Slice(seq, lo, hi) == IF hi <= lo THEN <<>> ELSE SubSeq(seq, lo + 1, hi)
\* a column of a frame
Col(df, name) == [i \in 1..Len(df) |-> df[i][name]]
Abs(x) == IF x < 0 THEN -x ELSE x

(***************************************************************************)
(* float64 values that may be infinite or not-a-number.                    *)
(***************************************************************************)
Fin(n) == [k |-> "fin", v |-> n]
Inf == [k |-> "inf", v |-> 0]
NaN == [k |-> "nan", v |-> 0]
\* w * x for a finite weight w >= 0:  0 * inf is nan
XMul(w, x) ==
    CASE x.k = "fin" -> Fin(w * x.v)
      [] x.k = "inf" -> IF w = 0 THEN NaN ELSE Inf
      [] OTHER -> NaN
XAdd(a, b) ==
    CASE a.k = "nan" \/ b.k = "nan" -> NaN
      [] a.k = "inf" \/ b.k = "inf" -> Inf
      [] OTHER -> Fin(a.v + b.v)

(***************************************************************************)
(* intersect.py: constants                                                 *)
(***************************************************************************)
MIN_HORIZON_ELEVATION == 0
EARTH_RADIUS == 6371
\* 180 degrees and 90 degrees (pi and pi/2) in the model's unit of 10 degrees
HalfTurn == 18
QuarterTurn == 9

(***************************************************************************)
(* intersect.py: haversine_angle.  Arguments and result are numerators     *)
(* over the common denominator d.  With lat1 = lat2 = 0 the code's         *)
(*   a = sin(dlat/2)^2 + cos(lat1)*cos(lat2)*sin(dlon/2)^2,                *)
(*   c = 2*atan2(sqrt(a), sqrt(1-a))                                       *)
(* is |dlon| folded into [0, pi].                                          *)
(***************************************************************************)
haversine_angle(lon1, lat1, lon2, lat2, d) ==
    LET dlon == Abs(lon2 - lon1) % (2 * HalfTurn * d)
    IN  IF dlon > HalfTurn * d THEN 2 * HalfTurn * d - dlon ELSE dlon


\* cos of the angle n/d (0 <= n/d <= 18, i.e. 0..180 degrees) as a fraction
\* CosNum/CosDen: Bhaskara's approximation cos(x) = (324 - 4x^2)/(324 + x^2)
\* for x in units of 10 degrees, mirrored for x beyond 90 degrees.
CosNum(n, d) ==
    IF n <= QuarterTurn * d
    THEN 4 * QuarterTurn * QuarterTurn * d * d - 4 * n * n
    ELSE -(4 * QuarterTurn * QuarterTurn * d * d
           - 4 * (HalfTurn * d - n) * (HalfTurn * d - n))
CosDen(n, d) ==
    IF n <= QuarterTurn * d
    THEN 4 * QuarterTurn * QuarterTurn * d * d + n * n
    ELSE 4 * QuarterTurn * QuarterTurn * d * d
         + (HalfTurn * d - n) * (HalfTurn * d - n)

(***************************************************************************)
(* intersect.py: _compute, lines 154-168.  The interpolated satellite      *)
(* radius alt and the angle are numerators over td.  nan_le is what the    *)
(* build makes of a comparison with nan (fastmath=True leaves it open;     *)
(* IEEE says FALSE).                                                       *)
(***************************************************************************)
\* if sat_interp_alt < EARTH_RADIUS: sat_interp_alt = EARTH_RADIUS
ClampAlt(alt, td) ==
    IF alt.k = "fin" /\ alt.v < EARTH_RADIUS * td
    THEN Fin(EARTH_RADIUS * td) ELSE alt

\* an elevation m * 10^e degrees (m = 0 or 1) is below 10^p
BelowPowerOfTen(elevation, p) == elevation.m = 0 \/ elevation.e < p

\* lines 157-164: which formula gives sat_fov_max_angle when the module's
\* MIN_HORIZON_ELEVATION is set to elevation; the test of line 159 is
\* MIN_HORIZON_ELEVATION < 1e6
FovBranchFor(elevation, alt) ==
    CASE alt.k = "inf" -> "half_earth"
      [] BelowPowerOfTen(elevation, 6) -> "tangent"
      [] OTHER -> "general"

\* which formula gives sat_fov_max_angle
FovBranch(alt) == FovBranchFor([m |-> MIN_HORIZON_ELEVATION, e |-> 0], alt)

\* angle <= sat_fov_max_angle
WithinFov(alt, angle, td, nan_le) ==
    CASE alt.k = "nan" -> nan_le
      [] FovBranch(alt) = "half_earth" -> angle <= QuarterTurn * td
      [] FovBranch(alt) = "tangent" ->
            \* angle <= acos(R / alt)  <=>  cos(angle) >= R / alt
            CosNum(angle, td) * alt.v >= EARTH_RADIUS * td * CosDen(angle, td)
      [] OTHER ->
            \* angle <= pi/2 - eps - asin(R/alt * sin(eps + pi/2))
            \*   <=>  cos(angle + eps) >= R/alt * cos(eps)
            LET eps == MIN_HORIZON_ELEVATION * td
            IN  CosNum(angle + eps, td) * alt.v * CosDen(eps, td)
                  >= EARTH_RADIUS * td * CosNum(eps, td) * CosDen(angle + eps, td)

\* lines 142-152: the interpolated satellite state at vtime, numerators over
\* time_diff = sat_right - sat_left
Interpolate(sat_lat, sat_long, sat_alt, sat_idx, sat_left, sat_right, vtime) ==
    LET alpha == vtime - sat_left
        beta == sat_right - vtime
    IN  [time_diff |-> sat_right - sat_left,
         lat |-> beta * At(sat_lat, sat_idx - 1) + alpha * At(sat_lat, sat_idx),
         lon |-> beta * At(sat_long, sat_idx - 1) + alpha * At(sat_long, sat_idx),
         alt |-> XAdd(XMul(beta, At(sat_alt, sat_idx - 1)),
                      XMul(alpha, At(sat_alt, sat_idx)))]

\* sat_interp_* before the first interpolation
NoInterp == [time_diff |-> 0, lat |-> 0, lon |-> 0, alt |-> NaN]

\* lines 111-115: the kernel's locals before the loop; trace is a ghost
\* record, per ping, of the bracket and the satellite state used for it
KernelInit(sat_time, output) ==
    [sat_idx |-> 1, sat_left |-> At(sat_time, 0), sat_right |-> At(sat_time, 1),
     dirty |-> TRUE, interp |-> NoInterp, output |-> output, returned |-> FALSE,
     trace |-> [i \in 1..Len(output) |-> [eval |-> FALSE, k |-> 0, interp |-> NoInterp]]]

\* Sweep with "while vtime > sat_right": a ping at a sample time stays in the
\* bracket that ends there
RECURSIVE SweepOffByOne(_, _, _)
SweepOffByOne(sat_time, st, vtime) ==
    IF vtime <= st.sat_right THEN st
    ELSE IF st.sat_idx + 1 = Len(sat_time)
         THEN [st EXCEPT !.sat_idx = @ + 1, !.returned = TRUE]
         ELSE SweepOffByOne(sat_time,
                    [st EXCEPT !.sat_idx = @ + 1,
                               !.sat_left = st.sat_right,
                               !.sat_right = At(sat_time, st.sat_idx + 1),
                               !.dirty = TRUE],
                    vtime)

\* lines 125-133: while vtime >= sat_right
RECURSIVE Sweep(_, _, _)
Sweep(sat_time, st, vtime) ==
    IF vtime < st.sat_right THEN st
    ELSE IF st.sat_idx + 1 = Len(sat_time)
         THEN [st EXCEPT !.sat_idx = @ + 1, !.returned = TRUE]
         ELSE Sweep(sat_time,
                    [st EXCEPT !.sat_idx = @ + 1,
                               !.sat_left = st.sat_right,
                               !.sat_right = At(sat_time, st.sat_idx + 1),
                               !.dirty = TRUE],
                    vtime)

\* TimeChanged without the test of line 137: only a bracket change refreshes
TimeChangedNever(v_time, i) == FALSE

\* line 137: the cache is stale when the ping's time differs from the one before
TimeChanged(v_time, i) == i > 0 /\ At(v_time, i - 1) # At(v_time, i)

\* lines 118-168: one iteration of the loop, for ping i (0-based)
LoopBody(sat_time, sat_lat, sat_long, sat_alt, v_time, v_lat, v_long, st, i, nan_le) ==
    LET vtime == At(v_time, i)
    IN  IF vtime < st.sat_left THEN st
        ELSE
        LET s1 == Sweep(sat_time, st, vtime)
        IN  IF s1.returned THEN s1
            ELSE
            LET s2 == IF TimeChanged(v_time, i) THEN [s1 EXCEPT !.dirty = TRUE] ELSE s1
                s3 == IF s2.dirty
                      THEN [s2 EXCEPT !.dirty = FALSE,
                                      !.interp = Interpolate(sat_lat, sat_long, sat_alt,
                                                     s2.sat_idx, s2.sat_left, s2.sat_right, vtime)]
                      ELSE s2
                td == s3.interp.time_diff
                s4 == [s3 EXCEPT !.interp.alt = ClampAlt(@, td)]
                angle == haversine_angle(s4.interp.lon, s4.interp.lat,
                                         At(v_long, i) * td, At(v_lat, i) * td, td)
                hit == WithinFov(s4.interp.alt, angle, td, nan_le)
            IN  [s4 EXCEPT !.output[i + 1] = IF hit THEN TRUE ELSE @,
                           !.trace[i + 1] = [eval |-> TRUE, k |-> s4.sat_idx,
                                             interp |-> s4.interp]]

\* line 117: for i in range(v_time.shape[0])
RECURSIVE Loop(_, _, _, _, _, _, _, _, _, _)
Loop(sat_time, sat_lat, sat_long, sat_alt, v_time, v_lat, v_long, st, i, nan_le) ==
    IF i >= Len(v_time) \/ st.returned THEN st
    ELSE Loop(sat_time, sat_lat, sat_long, sat_alt, v_time, v_lat, v_long,
              LoopBody(sat_time, sat_lat, sat_long, sat_alt, v_time, v_lat, v_long,
                       st, i, nan_le),
              i + 1, nan_le)

\* _compute: the kernel on one satellite series and one vessel series; the
\* result's output is the mask it leaves in the output array it was given
_compute(sat_time, sat_lat, sat_long, sat_alt, v_time, v_lat, v_long, output, nan_le) ==
    Loop(sat_time, sat_lat, sat_long, sat_alt, v_time, v_lat, v_long,
         KernelInit(sat_time, output), 0, nan_le)


(***************************************************************************)
(* intersect.py: clip_time and compute_hits                                *)
(***************************************************************************)
\* numpy.searchsorted(a, key, side): binary search, as numpy does it (the
\* result is lower_bound / upper_bound when a is sorted)
RECURSIVE BinSearch(_, _, _, _, _)
BinSearch(a, key, lo, hi, side) ==
    IF lo >= hi THEN lo
    ELSE LET mid == lo + (hi - lo) \div 2
             goRight == IF side = "right" THEN At(a, mid) <= key ELSE At(a, mid) < key
         IN  IF goRight THEN BinSearch(a, key, mid + 1, hi, side)
                        ELSE BinSearch(a, key, lo, mid, side)
searchsorted(a, key, side) == BinSearch(a, key, 0, Len(a), side)

\* clip_time with the end searched on the left side: rows at end_time are cut
clip_timeEndLeft(start_time, end_time, times, other_arrays) ==
    LET lo == IF start_time # None THEN searchsorted(times, start_time[1], "left") ELSE 0
        hi == IF end_time # None THEN searchsorted(times, end_time[1], "left")
              ELSE Len(times)
    IN  <<Slice(times, lo, hi)>>
        \o [j \in 1..Len(other_arrays) |-> Slice(other_arrays[j], lo, hi)]

\* clip_time: the list [times[s]] + [a[s] for a in other_arrays]
clip_time(start_time, end_time, times, other_arrays) ==
    LET start_ndx == IF start_time # None
                     THEN Some(searchsorted(times, start_time[1], "left")) ELSE None
        end_ndx == IF end_time # None
                   THEN Some(searchsorted(times, end_time[1], "right")) ELSE None
        lo == IF start_ndx = None THEN 0 ELSE start_ndx[1]
        hi == IF end_ndx = None THEN Len(times) ELSE end_ndx[1]
    IN  <<Slice(times, lo, hi)>>
        \o [j \in 1..Len(other_arrays) |-> Slice(other_arrays[j], lo, hi)]

\* lines 252-255: the number of chunks when the caller gives none
RECURSIVE DoubleWorkers(_, _)
DoubleWorkers(workers, numvessels) ==
    IF workers < 32 /\ numvessels % (2 * workers) = 0
    THEN DoubleWorkers(workers * 2, numvessels) ELSE workers
ChooseWorkers(workers, numvessels) ==
    IF workers = None THEN DoubleWorkers(4, numvessels) ELSE workers[1]

\* a[mask]: boolean indexing
RECURSIVE MaskSelect(_, _)
MaskSelect(a, mask) ==
    IF a = <<>> THEN <<>>
    ELSE (IF Head(mask) THEN <<Head(a)>> ELSE <<>>) \o MaskSelect(Tail(a), Tail(mask))

\* the kernel on rows 0..rows-1 of the arrays reshaped to (-1, chunksize):
\* each row is one call of the kernel body, on its own slice of the mask
RECURSIVE ComputeRows(_, _, _, _, _, _, _, _, _)
ComputeRows(sat_args, v_time, v_lat, v_long, hit_mask, chunksize, row, rows, nan_le) ==
    IF row >= rows THEN <<>>
    ELSE _compute(sat_args[1], sat_args[2], sat_args[3], sat_args[4],
                  Slice(v_time, row * chunksize, (row + 1) * chunksize),
                  Slice(v_lat, row * chunksize, (row + 1) * chunksize),
                  Slice(v_long, row * chunksize, (row + 1) * chunksize),
                  Slice(hit_mask, row * chunksize, (row + 1) * chunksize),
                  nan_le).output
         \o ComputeRows(sat_args, v_time, v_lat, v_long, hit_mask, chunksize,
                        row + 1, rows, nan_le)

\* lines 260-271: the mask after the dispatch, or the ValueError numpy's
\* reshape raises for the shape (-1, 0)
Dispatch(sat_args, vsl_args, hit_mask, workers, nan_le) ==
    LET numvessels == Len(vsl_args[1])
    IN  IF workers > 1
        THEN LET chunksize == numvessels \div workers
                 totalsize == chunksize * workers
             IN  IF chunksize = 0 THEN [status |-> "ValueError", mask |-> hit_mask]
                 ELSE [status |-> "ok",
                       mask |->
                         ComputeRows(sat_args, Slice(vsl_args[1], 0, totalsize),
                                     Slice(vsl_args[2], 0, totalsize),
                                     Slice(vsl_args[3], 0, totalsize),
                                     Slice(hit_mask, 0, totalsize),
                                     chunksize, 0, workers, nan_le)
                         \o (IF numvessels > totalsize
                             THEN _compute(sat_args[1], sat_args[2], sat_args[3], sat_args[4],
                                           Slice(vsl_args[1], totalsize, numvessels),
                                           Slice(vsl_args[2], totalsize, numvessels),
                                           Slice(vsl_args[3], totalsize, numvessels),
                                           Slice(hit_mask, totalsize, numvessels),
                                           nan_le).output
                             ELSE <<>>)]
        ELSE [status |-> "ok",
              mask |-> _compute(sat_args[1], sat_args[2], sat_args[3], sat_args[4],
                                vsl_args[1], vsl_args[2], vsl_args[3], hit_mask,
                                nan_le).output]

\* lines 227-235: the satellite arrays handed to the kernel
SatArgs(track, assume_half_earth) ==
    <<Col(track, "date_time"), Col(track, "lat"), Col(track, "lon"),
      IF assume_half_earth
      THEN [i \in 1..Len(track) |-> Inf]
      ELSE [i \in 1..Len(track) |-> Fin(track[i].alt)]>>

\* lines 274-275: the frame built from the masked columns
HitFrame(trunc_mmsi, vsl_args, hit_mask) ==
    LET mmsi == MaskSelect(trunc_mmsi, hit_mask)
        date_time == MaskSelect(vsl_args[1], hit_mask)
        lat == MaskSelect(vsl_args[2], hit_mask)
        lon == MaskSelect(vsl_args[3], hit_mask)
    IN  [i \in 1..Len(mmsi) |->
            [mmsi_id |-> mmsi[i], date_time |-> date_time[i],
             lat |-> lat[i], lon |-> lon[i]]]

\* compute_hits: status "ok" with the returned frame (and, as ghosts, the
\* mask and the clipped length), or the exception raised
\* a short track answered with an empty frame instead of an error
ReturnEmptyForShortTrack ==
    [status |-> "ok", hits |-> <<>>, mask |-> <<>>, dispatched |-> FALSE,
     columns |-> <<"mmsi_id", "date_time", "lat", "lon">>]

\* lines 223-225: raise ValueError("Satellite track data must have minimum
\* array length 2"); nothing was clipped or dispatched and no frame exists
RaiseShortTrack ==
    [status |-> "ValueError", hits |-> <<>>, mask |-> <<>>, dispatched |-> FALSE,
     columns |-> <<>>]

\* the test of line 243 never true: an empty clip goes on to the dispatch
NoPingsNever(numvessels) == FALSE

\* line 243: if numvessels == 0
NoPings(numvessels) == numvessels = 0

\* lines 244 and 274-275: the columns of the frame compute_hits builds
HitColumns == <<"mmsi_id", "date_time", "lat", "lon">>

compute_hits(track, points, start_time, end_time, workers, assume_half_earth, nan_le) ==
    IF Len(track) < 2
    THEN RaiseShortTrack
    ELSE
    LET sat_args == SatArgs(track, assume_half_earth)
        clipped == clip_time(start_time, end_time, Col(points, "date_time"),
                             <<Col(points, "lat"), Col(points, "lon"),
                               Col(points, "mmsi_id")>>)
        trunc_mmsi == clipped[4]
        vsl_args == SubSeq(clipped, 1, 3)
        numvessels == Len(vsl_args[1])
    IN  IF NoPings(numvessels)
        THEN [status |-> "ok", hits |-> <<>>, mask |-> <<>>, dispatched |-> FALSE,
              columns |-> HitColumns]
        ELSE
        LET hit_mask == [i \in 1..numvessels |-> FALSE]
            done == Dispatch(sat_args, vsl_args, hit_mask,
                             ChooseWorkers(workers, numvessels), nan_le)
        IN  IF done.status # "ok"
            THEN [status |-> done.status, hits |-> <<>>, mask |-> done.mask,
                  dispatched |-> TRUE, columns |-> <<>>]
            ELSE [status |-> "ok", hits |-> HitFrame(trunc_mmsi, vsl_args, done.mask),
                  mask |-> done.mask, dispatched |-> TRUE, columns |-> HitColumns]

(***************************************************************************)
(* The inputs of the intersection subsystem.  Both series are sorted, as   *)
(* compute_hits requires: sat_time strictly increasing, v_time             *)
(* non-decreasing.                                                         *)
(***************************************************************************)
Times == 0..MaxTime
\* satellite samples (longitude, radius in km): twice the Earth's radius
\* gives a footprint of 60 degrees, 6000 km lies below the surface
SatKinds == {[lon |-> 0, alt |-> 12742], [lon |-> 6, alt |-> 12742],
             [lon |-> 6, alt |-> 6000]}
\* pings of two vessels, both within a quarter turn of every satellite sample
PingKinds == {[mmsi_id |-> 1, lon |-> 3], [mmsi_id |-> 2, lon |-> 9]}
WorkerChoices == {None, Some(1), Some(2), Some(4), Some(8)}
StartChoices == {None, Some(1)}
EndChoices == {None, Some(2)}

StrictlyIncreasing(t) == \A i \in 1..(Len(t) - 1) : t[i] < t[i + 1]
NonDecreasing(t) == \A i \in 1..(Len(t) - 1) : t[i] <= t[i + 1]

SatTimeVectors ==
    {t \in UNION {[1..m -> Times] : m \in 2..MaxSat} : StrictlyIncreasing(t)}
SatTracksOf(kinds) ==
    UNION {{[i \in 1..Len(t) |-> [date_time |-> t[i], lat |-> 0,
                                  lon |-> k[i].lon, alt |-> k[i].alt]] :
              k \in [1..Len(t) -> kinds]} : t \in SatTimeVectors}
PingTimeVectors ==
    {t \in UNION {[1..n -> Times] : n \in 0..MaxPings} : NonDecreasing(t)}
\* the frames: the pings of the two vessels alternate, either one first
VesselFrames ==
    UNION {{[i \in 1..Len(t) |->
                LET k == CHOOSE k \in PingKinds : (k = first) <=> (i % 2 = 1)
                IN  [mmsi_id |-> k.mmsi_id, date_time |-> t[i], lat |-> 0, lon |-> k.lon]] :
              first \in PingKinds} : t \in PingTimeVectors}

(***************************************************************************)
(* The kernel called directly.                                             *)
(***************************************************************************)
InitKernel ==
    /\ sat_track \in SatTracksOf(SatKinds)
    /\ vessel_points \in VesselFrames \ {<<>>}
    /\ kernel_out = NotCalled
    /\ hits_out = Idle
    /\ tle_times = Idle /\ windows = Idle
    /\ vessels = Idle /\ interp_out = Idle
    /\ StoreIdle

\* a call of _compute on the whole series with a zeroed output array; with
\* half, the radius column is np.inf ("To effect a half-earth FOV")
CallCompute ==
    /\ kernel_out = NotCalled
    /\ \E half \in BOOLEAN :
       \E nan_le \in (IF half THEN BOOLEAN ELSE {FALSE}) :
          LET sat_args == SatArgs(sat_track, half)
              st == _compute(sat_args[1], sat_args[2], sat_args[3], sat_args[4],
                             Col(vessel_points, "date_time"), Col(vessel_points, "lat"),
                             Col(vessel_points, "lon"),
                             [i \in 1..Len(vessel_points) |-> FALSE], nan_le)
          IN  kernel_out' = [status |-> "ok", sat_alt |-> sat_args[4], nan_le |-> nan_le,
                             output |-> st.output, trace |-> st.trace,
                             returned |-> st.returned]
    /\ UNCHANGED <<sat_track, vessel_points, hits_out, tle_times, windows,
                   vessels, interp_out>>
    /\ UNCHANGED storeVars

NextKernel == CallCompute

SpecKernel == InitKernel /\ [][NextKernel]_vars

(***************************************************************************)
(* compute_hits called once.                                               *)
(***************************************************************************)
InitHits ==
    /\ sat_track \in SatTracksOf({k \in SatKinds : k.alt > EARTH_RADIUS})
    /\ vessel_points \in VesselFrames
    /\ kernel_out = Idle
    /\ hits_out = NotCalled
    /\ tle_times = Idle /\ windows = Idle
    /\ vessels = Idle /\ interp_out = Idle
    /\ StoreIdle

CallComputeHits ==
    /\ hits_out = NotCalled
    /\ \E start_time \in StartChoices, end_time \in EndChoices,
          workers \in WorkerChoices, half \in BOOLEAN :
       \E nan_le \in (IF half THEN BOOLEAN ELSE {FALSE}) :
          hits_out' = [status |-> "called", start_time |-> start_time, end_time |-> end_time,
                       workers |-> workers, assume_half_earth |-> half, nan_le |-> nan_le,
                       res |-> compute_hits(sat_track, vessel_points, start_time, end_time,
                                            workers, half, nan_le)]
    /\ UNCHANGED <<sat_track, vessel_points, kernel_out, tle_times, windows,
                   vessels, interp_out>>
    /\ UNCHANGED storeVars

NextHits == CallComputeHits

SpecHits == InitHits /\ [][NextHits]_vars


(***************************************************************************)
(* Properties of the kernel (SpecKernel).                                  *)
(***************************************************************************)
SatFirst == sat_track[1].date_time
SatLast == sat_track[Len(sat_track)].date_time
InSatRange(t) == SatFirst <= t /\ t < SatLast

\* C1: the kernel leaves a mask of length n, and a ping that is a hit has
\* sat_time[0] <= v_time[i] < sat_time[m-1]: pings before the first satellite
\* sample and pings at or after the last one are never hits.
C1_HitsOnlyInsideSatRange ==
    kernel_out.status = "ok" =>
        /\ Len(kernel_out.output) = Len(vessel_points)
        /\ \A i \in 1..Len(vessel_points) :
              kernel_out.output[i] => InSatRange(vessel_points[i].date_time)

\* a call with a ping before the track, a hit, and a ping exactly at the last
\* satellite sample
C1_Witness ==
    /\ kernel_out.status = "ok"
    /\ \A j \in 1..Len(sat_track) : kernel_out.sat_alt[j].k = "fin"
    /\ \E i \in 1..Len(vessel_points) : vessel_points[i].date_time < SatFirst
    /\ \E i \in 1..Len(vessel_points) : kernel_out.output[i]
    /\ \E i \in 1..Len(vessel_points) :
          vessel_points[i].date_time = SatLast /\ ~kernel_out.output[i]

\* the satellite state a fresh interpolation in bracket k gives at time vt
FreshInterp(k, vt) ==
    LET f == Interpolate(Col(sat_track, "lat"), Col(sat_track, "lon"), kernel_out.sat_alt,
                         k, sat_track[k].date_time, sat_track[k + 1].date_time, vt)
    IN  [f EXCEPT !.alt = ClampAlt(@, f.time_diff)]

\* the visibility predicate for one ping on its own: the ping's time lies in
\* a bracket, and the ping is within the footprint of the satellite
\* interpolated in that bracket
VisibleAlone(p) ==
    \E k \in 1..(Len(sat_track) - 1) :
        /\ sat_track[k].date_time <= p.date_time
        /\ p.date_time < sat_track[k + 1].date_time
        /\ LET f == FreshInterp(k, p.date_time)
           IN  WithinFov(f.alt,
                         haversine_angle(f.lon, f.lat, p.lon * f.time_diff,
                                         p.lat * f.time_diff, f.time_diff),
                         f.time_diff, kernel_out.nan_le)

\* C4: at every evaluated ping the bracket index k has
\* sat_time[k-1] <= v_time[i] < sat_time[k], the satellite state used for the
\* ping (cached or not) is the one a fresh interpolation at (k, v_time[i])
\* gives, and hit[i] is the visibility predicate of ping i taken alone.
C4_SweepEqualsPerPingReference ==
    kernel_out.status = "ok" =>
        \A i \in 1..Len(vessel_points) :
            LET tr == kernel_out.trace[i]
                vt == vessel_points[i].date_time
            IN  /\ tr.eval =>
                     /\ tr.k \in 1..(Len(sat_track) - 1)
                     /\ sat_track[tr.k].date_time <= vt
                     /\ vt < sat_track[tr.k + 1].date_time
                     /\ tr.interp = FreshInterp(tr.k, vt)
                /\ kernel_out.output[i] = VisibleAlone(vessel_points[i])

\* two pings with one timestamp, the second served from the cache, with
\* different verdicts; and a later ping in another bracket
C4_Witness ==
    /\ kernel_out.status = "ok"
    /\ \E i \in 1..(Len(vessel_points) - 1) :
          /\ vessel_points[i].date_time = vessel_points[i + 1].date_time
          /\ kernel_out.trace[i].eval /\ kernel_out.trace[i + 1].eval
          /\ kernel_out.output[i] # kernel_out.output[i + 1]
    /\ \E i, j \in 1..Len(vessel_points) :
          /\ kernel_out.trace[i].eval /\ kernel_out.trace[j].eval
          /\ kernel_out.trace[i].k # kernel_out.trace[j].k

(***************************************************************************)
(* Properties of compute_hits (SpecHits).                                  *)
(***************************************************************************)
HitsCalled == hits_out.status = "called"
HitsOk == HitsCalled /\ hits_out.res.status = "ok"

\* start_time <= t <= end_time, an absent bound not clipping
InClip(t) ==
    /\ hits_out.start_time = None \/ hits_out.start_time[1] <= t
    /\ hits_out.end_time = None \/ t <= hits_out.end_time[1]
\* the input rows inside the clip, in input order
ClipRows == SelectSeq(vessel_points, LAMBDA r : InClip(r.date_time))

\* C2: in half-earth mode a ping is a hit if and only if its time lies in
\* [sat_time[0], sat_time[m-1]), wherever it is and also at a sample time.
C2_HalfEarthHitIffInRange ==
    (HitsOk /\ hits_out.assume_half_earth) =>
        /\ Len(hits_out.res.mask) = Len(ClipRows)
        /\ \A i \in 1..Len(ClipRows) :
              hits_out.res.mask[i] <=> InSatRange(ClipRows[i].date_time)

\* C3: the hit set is the same for every workers in {1, 2, 4, 8}: the call
\* returns what the serial sweep (workers = 1) returns.
C3_WorkerInvariance ==
    (HitsCalled /\ hits_out.workers \in {Some(1), Some(2), Some(4), Some(8)}) =>
        hits_out.res = compute_hits(sat_track, vessel_points, hits_out.start_time,
                                    hits_out.end_time, Some(1),
                                    hits_out.assume_half_earth, hits_out.nan_le)

\* what C3 leaves when every chunk holds a ping: a call that returns, returns
\* what the serial sweep returns
ChunkedEqualsSerialWhenReturned ==
    HitsOk =>
        hits_out.res = compute_hits(sat_track, vessel_points, hits_out.start_time,
                                    hits_out.end_time, Some(1),
                                    hits_out.assume_half_earth, hits_out.nan_le)

\* C5: the returned frame is the sub-sequence of the input rows inside the
\* clip whose mask cell is true, in input order, every row with its own
\* mmsi_id, time, lat and lon.
C5_HitsAreMaskedClipRows ==
    HitsOk =>
        /\ Len(hits_out.res.mask) = Len(ClipRows)
        /\ hits_out.res.hits = MaskSelect(ClipRows, hits_out.res.mask)

\* a call clipped at both ends that cuts rows off, keeps a row at end_time,
\* and returns hits of both vessels next to a miss
C5_Witness ==
    /\ HitsOk
    /\ hits_out.start_time # None /\ hits_out.end_time # None
    /\ \E i \in 1..Len(vessel_points) : ~InClip(vessel_points[i].date_time)
    /\ \E i \in 1..Len(ClipRows) : ClipRows[i].date_time = hits_out.end_time[1]
    /\ \E i \in 1..Len(hits_out.res.mask) : ~hits_out.res.mask[i]
    /\ \E i, j \in 1..Len(hits_out.res.hits) :
          hits_out.res.hits[i].mmsi_id # hits_out.res.hits[j].mmsi_id


(***************************************************************************)
(* sathelpers.py: the TLE window planner.  Epochs are whole seconds; a     *)
(* midpoint may fall on a half second, so a time here is a fraction        *)
(* num/den of seconds.                                                     *)
(***************************************************************************)
MaxTles == 4

\* timedelta(days=7).total_seconds()
max_extrap == 604800

Max(a, b) == IF a >= b THEN a ELSE b
Min(a, b) == IF a <= b THEN a ELSE b

\* floor_to_nearest_min rounding up (np.ceil for np.floor)
floor_to_nearest_minCeil(num, den) == 60 * (-((-num) \div (60 * den)))
\* floor_to_nearest_min rounding to the second only, as the notebook's
\* older planner does
floor_to_nearest_minSecond(num, den) == num \div den

\* floor_to_nearest_min(epoch_s) for epoch_s = num/den: int(60.0 * floor(epoch_s / 60.0))
floor_to_nearest_min(num, den) == 60 * (num \div (60 * den))

\* the window start taking the earlier of the two candidates (min for max)
WindowStart2Min(times, i) ==
    IF i = 0 THEN 2 * At(times, 0)
    ELSE Min(At(times, i - 1) + At(times, i), 2 * (At(times, i) - max_extrap))

\* lines 118-128: twice the start of the window of TLE i (0-based), before flooring
WindowStart2(times, i) ==
    IF i = 0 THEN 2 * At(times, 0)
    ELSE Max(At(times, i - 1) + At(times, i), 2 * (At(times, i) - max_extrap))

\* the window end always at the midpoint to the next epoch (no 7-day cap)
WindowEnd2Uncapped(times, i) ==
    IF i = Len(times) - 1 THEN 2 * At(times, Len(times) - 1)
    ELSE At(times, i) + At(times, i + 1)

\* lines 131-140: twice the end of the window of TLE i, before flooring
WindowEnd2(times, i) ==
    IF i = Len(times) - 1 THEN 2 * At(times, Len(times) - 1)
    ELSE Min(At(times, i) + At(times, i + 1), 2 * (At(times, i) + max_extrap))

\* lines 113-150: the loop from TLE i on; a window records the TLE it is
\* anchored on (tle: the index of the record whose lines it carries) and, as
\* ghosts, twice its start and end before the flooring of lines 142-143
RECURSIVE WindowsFrom(_, _)
WindowsFrom(times, i) ==
    IF i >= Len(times) THEN <<>>
    ELSE LET start == floor_to_nearest_min(WindowStart2(times, i), 2)
             end == floor_to_nearest_min(WindowEnd2(times, i), 2)
             window_length == end - start
         IN  (IF window_length <= 60 THEN <<>>
              ELSE <<[start |-> start, end |-> end, tle |-> i,
                      start2 |-> WindowStart2(times, i),
                      end2 |-> WindowEnd2(times, i)]>>)
             \o WindowsFrom(times, i + 1)

get_compute_windows(times) == WindowsFrom(times, 0)

\* compute_lat_long_dist, line 170: the assertion on a window handed to it
WindowAssertion(start_epoch, end_epoch) == end_epoch - start_epoch > 60

(***************************************************************************)
(* The planner called once on the epochs of one satellite, sorted by       *)
(* epoch as get_all_tles delivers them.                                    *)
(***************************************************************************)
\* epochs less than a minute apart, minutes apart, and more than 14 days apart
Epochs == {30, 130, 200, 250, 400, 700, 604990, 1900000}
EpochVectors ==
    {t \in UNION {[1..n -> Epochs] : n \in 0..MaxTles} : NonDecreasing(t)}

InitPlanner ==
    /\ tle_times \in EpochVectors
    /\ windows = NotCalled
    /\ sat_track = Idle /\ vessel_points = Idle
    /\ kernel_out = Idle /\ hits_out = Idle
    /\ vessels = Idle /\ interp_out = Idle
    /\ StoreIdle

CallGetComputeWindows ==
    /\ windows = NotCalled
    /\ windows' = [status |-> "ok", list |-> get_compute_windows(tle_times)]
    /\ UNCHANGED <<sat_track, vessel_points, kernel_out, hits_out, tle_times,
                   vessels, interp_out>>
    /\ UNCHANGED storeVars

NextPlanner == CallGetComputeWindows

SpecPlanner == InitPlanner /\ [][NextPlanner]_vars

(***************************************************************************)
(* Properties of the planner (SpecPlanner).                                *)
(***************************************************************************)
\* C6: the windows are emitted in increasing start and do not overlap: of
\* two consecutive emitted windows the earlier ends no later than the later
\* starts.
C6_WindowsSortedDisjoint ==
    windows.status = "ok" =>
        \A j \in 1..(Len(windows.list) - 1) :
            /\ windows.list[j].start < windows.list[j + 1].start
            /\ windows.list[j].end <= windows.list[j + 1].start

\* three windows, two of them touching, two of them around a dropped window
C6_Witness ==
    /\ windows.status = "ok"
    /\ Len(windows.list) >= 3
    /\ \E j \in 1..(Len(windows.list) - 1) :
          windows.list[j].end = windows.list[j + 1].start
    /\ \E j \in 1..(Len(windows.list) - 1) :
          /\ windows.list[j + 1].tle > windows.list[j].tle + 1
          /\ windows.list[j].end < windows.list[j + 1].start

\* C7: every emitted window starts and ends on a whole minute and is longer
\* than 60 s, so the assertion of compute_lat_long_dist holds for it.
C7_WindowsMinuteAlignedAndLong ==
    windows.status = "ok" =>
        \A j \in 1..Len(windows.list) :
            /\ windows.list[j].start % 60 = 0
            /\ windows.list[j].end % 60 = 0
            /\ windows.list[j].end - windows.list[j].start > 60
            /\ WindowAssertion(windows.list[j].start, windows.list[j].end)

\* a plan that dropped a window, kept one of the least length (two minutes),
\* and floored an epoch that was not on a minute
C7_Witness ==
    /\ windows.status = "ok"
    /\ Len(windows.list) < Len(tle_times)
    /\ \E j \in 1..Len(windows.list) :
          windows.list[j].end - windows.list[j].start = 120
    /\ \E j \in 1..Len(windows.list) :
          windows.list[j].start < At(tle_times, windows.list[j].tle)

\* C8 as stated: the epoch of the TLE a window is anchored on lies in the
\* half-open window, start <= t and t < end.
C8_EpochInsideWindow ==
    windows.status = "ok" =>
        \A j \in 1..Len(windows.list) :
            LET t == At(tle_times, windows.list[j].tle)
            IN  windows.list[j].start <= t /\ t < windows.list[j].end

\* C8 amended: the window starts at or before its epoch and ends at or after
\* the whole minute of its epoch: start <= t and t < end + 60.
C8_EpochMinuteInsideWindow ==
    windows.status = "ok" =>
        \A j \in 1..Len(windows.list) :
            LET t == At(tle_times, windows.list[j].tle)
            IN  /\ windows.list[j].start <= t
                /\ t < windows.list[j].end + 60

\* a plan with the last TLE's window (which ends at the floored epoch), a
\* window of an earlier TLE that ends before its epoch, and a window that
\* holds its epoch
C8_Witness ==
    /\ windows.status = "ok"
    /\ \E j \in 1..Len(windows.list) :
          /\ windows.list[j].tle = Len(tle_times) - 1
          /\ At(tle_times, windows.list[j].tle) >= windows.list[j].end
    /\ \E j \in 1..Len(windows.list) :
          /\ windows.list[j].tle < Len(tle_times) - 1
          /\ At(tle_times, windows.list[j].tle) >= windows.list[j].end
    /\ \E j \in 1..Len(windows.list) :
          At(tle_times, windows.list[j].tle) < windows.list[j].end


\* C21: before flooring, the window of TLE i starts at t[0] for i = 0 and
\* else at max(midpoint(t[i-1], t[i]), t[i] - 7 days), and ends at t[n-1] for
\* i = n-1 and else at min(midpoint(t[i], t[i+1]), t[i] + 7 days); so it
\* reaches at most 7 days before and after its epoch, and when t[i] is more
\* than 14 days after t[i-1] it starts at t[i] - 7 days, after the end
\* t[i-1] + 7 days of the window before it.
C21_WindowCappedAtSevenDays ==
    windows.status = "ok" =>
        \A j \in 1..Len(windows.list) :
            LET w == windows.list[j]
                i == w.tle
                n == Len(tle_times)
                t == At(tle_times, i)
                seven_days == 7 * 24 * 3600
            IN  /\ i = 0 => w.start2 = 2 * t
                /\ i > 0 =>
                     LET mid2 == At(tle_times, i - 1) + t
                         cap2 == 2 * (t - seven_days)
                     IN  /\ w.start2 = (IF mid2 >= cap2 THEN mid2 ELSE cap2)
                         /\ t - At(tle_times, i - 1) > 2 * seven_days =>
                              /\ w.start2 = cap2
                              /\ 2 * (At(tle_times, i - 1) + seven_days) < w.start2
                /\ i = n - 1 => w.end2 = 2 * t
                /\ i < n - 1 =>
                     LET mid2 == t + At(tle_times, i + 1)
                         cap2 == 2 * (t + seven_days)
                     IN  w.end2 = (IF mid2 <= cap2 THEN mid2 ELSE cap2)
                /\ 2 * t - w.start2 <= 2 * seven_days
                /\ w.end2 - 2 * t <= 2 * seven_days
                /\ w.start = 60 * (w.start2 \div 120)
                /\ w.end = 60 * (w.end2 \div 120)

\* a plan with two consecutive epochs more than 14 days apart, both windows
\* emitted: the earlier ends 7 days after its epoch, the later starts 7 days
\* before its own, and the time between them is covered by no window
C21_Witness ==
    /\ windows.status = "ok"
    /\ \E j \in 1..(Len(windows.list) - 1) :
          LET a == windows.list[j]
              b == windows.list[j + 1]
          IN  /\ b.tle = a.tle + 1
              /\ At(tle_times, b.tle) - At(tle_times, a.tle) > 2 * max_extrap
              /\ a.end2 = 2 * (At(tle_times, a.tle) + max_extrap)
              /\ b.start2 = 2 * (At(tle_times, b.tle) - max_extrap)
              /\ a.end < b.start

(***************************************************************************)
(* interpolate_ais.py: the vessel track interpolator.  Times are whole     *)
(* seconds; positions are in minutes of arc on the equator (lat = 0);      *)
(* maxdt is a whole number of seconds, as the command line passes it.      *)
(***************************************************************************)
MaxRows == 3
MaxRowTime == 6

\* cos(lat) as line 35 takes it, of a latitude that is in degrees: 10000 *
\* cos(k radians) for a latitude of k whole degrees (lat is in minutes of arc)
CosOfDegreesAsRadians(lat) ==
    <<10000, 5403, -4161, -9900, -6536, 2837, 9602, 7539, -1455, -9111>>[lat \div 60 + 1]

\* haversine_dist(lon1, lat1, lon2, lat2) > maxdist, for points a few
\* degrees apart, where sin x = x and atan2 give
\*   dist = R * sqrt(dlat^2 + cos(lat1) * cos(lat2) * dlon^2),  R = 6371 km,
\* with dlat, dlon in radians (m minutes of arc = m * pi / 10800): dist >
\* maxdist iff dlat^2 + cos cos dlon^2 > maxdist^2 * 0.2912 in minutes of
\* arc.  A negative sum makes sqrt(a) nan, and nan > maxdist is false.
haversine_dist_exceeds(lon1, lat1, lon2, lat2, maxdist) ==
    LET d == Abs(lon2 - lon1) % 21600
        dlon == IF d > 10800 THEN 21600 - d ELSE d
        dlat == Abs(lat2 - lat1)
        coscos == (CosOfDegreesAsRadians(lat1) * CosOfDegreesAsRadians(lat2)) \div 10000
    IN  10000 * dlat * dlat + coscos * dlon * dlon > maxdist * maxdist * 2912

\* numsegments rounded down (int() for int(np.ceil()))
NumSegmentsFloor(gap, maxdt) == gap \div maxdt

\* every long gap cut in two, whatever its length
NumSegmentsBisect(gap, maxdt) == 2

\* line 83: numsegments = int(np.ceil((times[i+1] - times[i]) / maxdt))
NumSegments(gap, maxdt) == (gap + maxdt - 1) \div maxdt

\* lines 84-88: the synthetic rows between row and next, j = 1..numsegments-1;
\* int(dt*j + times[i]) truncates, dlat*j + lat and dlon*j + lon are exact
\* here (numsegments divides the differences of the model's positions)
SyntheticRows(row, next, numsegments) ==
    [j \in 1..(numsegments - 1) |->
        [mmsi_id |-> row.mmsi_id,
         date_time |-> ((next.date_time - row.date_time) * j) \div numsegments
                       + row.date_time,
         lat |-> ((next.lat - row.lat) * j) \div numsegments + row.lat,
         lon |-> ((next.lon - row.lon) * j) \div numsegments + row.lon]]

\* lines 67-88: what follows row i in the output before row i+1
GapRows(frame, i, maxdist, maxdt) ==
    LET row == At(frame, i)
        next == At(frame, i + 1)
    IN  IF row.mmsi_id # next.mmsi_id THEN <<>>
        ELSE IF next.date_time - row.date_time > maxdt
             THEN IF haversine_dist_exceeds(row.lon, row.lat, next.lon, next.lat, maxdist)
                  THEN <<>>
                  ELSE SyntheticRows(row, next,
                                     NumSegments(next.date_time - row.date_time, maxdt))
             ELSE <<>>

\* the loop leaving at the last row before it is appended
RECURSIVE InterpolateFromBreakFirst(_, _, _, _)
InterpolateFromBreakFirst(frame, i, maxdist, maxdt) ==
    IF i >= Len(frame) - 1 THEN [rows |-> <<>>, origin |-> <<>>]
    ELSE LET gap == GapRows(frame, i, maxdist, maxdt)
             rest == InterpolateFromBreakFirst(frame, i + 1, maxdist, maxdt)
         IN  [rows |-> <<At(frame, i)>> \o gap \o rest.rows,
              origin |-> <<i + 1>> \o [j \in 1..Len(gap) |-> 0] \o rest.origin]

\* lines 60-88: the loop from row i on.  origin is a ghost: for every output
\* row the (1-based) input row it is, 0 for a synthetic row
RECURSIVE InterpolateFrom(_, _, _, _)
InterpolateFrom(frame, i, maxdist, maxdt) ==
    IF i >= Len(frame) THEN [rows |-> <<>>, origin |-> <<>>]
    ELSE IF i = Len(frame) - 1
         THEN [rows |-> <<At(frame, i)>>, origin |-> <<i + 1>>]
         ELSE LET gap == GapRows(frame, i, maxdist, maxdt)
                  rest == InterpolateFrom(frame, i + 1, maxdist, maxdt)
              IN  [rows |-> <<At(frame, i)>> \o gap \o rest.rows,
                   origin |-> <<i + 1>> \o [j \in 1..Len(gap) |-> 0] \o rest.origin]

interpolate_track(frame, maxdist, maxdt) == InterpolateFrom(frame, 0, maxdist, maxdt)

(***************************************************************************)
(* The interpolator called once on a frame sorted by (mmsi_id, date_time). *)
(***************************************************************************)
RowValues == [mmsi_id : {1, 2}, date_time : 0..MaxRowTime, lat : {0}, lon : {0, 60, 120}]
RowOrder(a, b) ==
    a.mmsi_id < b.mmsi_id \/ (a.mmsi_id = b.mmsi_id /\ a.date_time <= b.date_time)
InterpFrames ==
    {f \in UNION {[1..n -> RowValues] : n \in 1..MaxRows} :
        \A i \in 1..(Len(f) - 1) : RowOrder(f[i], f[i + 1])}
MaxDts == {2, 3}
MaxDists == {200}

InitInterp ==
    /\ vessels \in InterpFrames
    /\ interp_out = NotCalled
    /\ sat_track = Idle /\ vessel_points = Idle
    /\ kernel_out = Idle /\ hits_out = Idle
    /\ tle_times = Idle /\ windows = Idle
    /\ StoreIdle

CallInterpolateTrack ==
    /\ interp_out = NotCalled
    /\ \E maxdist \in MaxDists, maxdt \in MaxDts :
          LET out == interpolate_track(vessels, maxdist, maxdt)
          IN  interp_out' = [status |-> "ok", maxdist |-> maxdist, maxdt |-> maxdt,
                             rows |-> out.rows, origin |-> out.origin]
    /\ UNCHANGED <<sat_track, vessel_points, kernel_out, hits_out, tle_times,
                   windows, vessels>>
    /\ UNCHANGED storeVars

\* the interpolator called again, with the same parameters, on the frame it
\* returned
CallInterpolateTrackAgain ==
    /\ interp_out.status = "ok"
    /\ LET out == interpolate_track(interp_out.rows, interp_out.maxdist, interp_out.maxdt)
       IN  interp_out' = [status |-> "rerun", maxdist |-> interp_out.maxdist,
                          maxdt |-> interp_out.maxdt,
                          first |-> interp_out.rows,
                          rows |-> out.rows, origin |-> out.origin]
    /\ UNCHANGED <<sat_track, vessel_points, kernel_out, hits_out, tle_times,
                   windows, vessels>>
    /\ UNCHANGED storeVars

NextInterp == CallInterpolateTrack \/ CallInterpolateTrackAgain

SpecInterp == InitInterp /\ [][NextInterp]_vars

(***************************************************************************)
(* Properties of the interpolator (SpecInterp).                            *)
(***************************************************************************)
\* the output rows that are not synthetic, in output order
OriginalRows ==
    MaskSelect(interp_out.rows, [p \in 1..Len(interp_out.rows) |-> interp_out.origin[p] # 0])

C10_FilledGapsMonotoneAndBounded ==
    interp_out.status = "ok" =>
        LET rows == interp_out.rows
            origin == interp_out.origin
        IN  /\ origin[1] # 0 /\ origin[Len(rows)] # 0
            /\ \A p \in 1..(Len(rows) - 1) :
                  /\ (origin[p] = 0 \/ origin[p + 1] = 0) =>
                        /\ rows[p].mmsi_id = rows[p + 1].mmsi_id
                        /\ rows[p].date_time < rows[p + 1].date_time
                        /\ rows[p + 1].date_time - rows[p].date_time <= interp_out.maxdt
                  /\ rows[p].mmsi_id = rows[p + 1].mmsi_id =>
                        rows[p].date_time <= rows[p + 1].date_time

\* a gap filled with two rows whose spacing is uneven because of truncation
C10_Witness ==
    /\ interp_out.status = "ok"
    /\ \E p \in 1..(Len(interp_out.rows) - 3) :
          /\ interp_out.origin[p] # 0
          /\ interp_out.origin[p + 1] = 0 /\ interp_out.origin[p + 2] = 0
          /\ interp_out.origin[p + 3] # 0
          /\ interp_out.rows[p + 1].date_time - interp_out.rows[p].date_time
               # interp_out.rows[p + 3].date_time - interp_out.rows[p + 2].date_time

ShortTracks ==
    {<<>>} \cup {<<[date_time |-> t, lat |-> 0, lon |-> k.lon, alt |-> k.alt]>> :
                    t \in Times, k \in SatKinds}
UnsortedPingTimeVectors ==
    {t \in UNION {[1..n -> Times] : n \in 2..(MaxPings - 1)} : ~NonDecreasing(t)}
UnsortedVesselFrames ==
    UNION {{[i \in 1..Len(t) |->
                LET k == CHOOSE k \in PingKinds : (k = first) <=> (i % 2 = 1)
                IN  [mmsi_id |-> k.mmsi_id, date_time |-> t[i], lat |-> 0, lon |-> k.lon]] :
              first \in PingKinds} : t \in UnsortedPingTimeVectors}

InitShape ==
    /\ \/ /\ sat_track \in ShortTracks
          /\ vessel_points \in VesselFrames \cup UnsortedVesselFrames
       \/ /\ sat_track \in SatTracksOf({k \in SatKinds : k.alt > EARTH_RADIUS})
          /\ vessel_points \in UnsortedVesselFrames
    /\ kernel_out = Idle
    /\ hits_out = NotCalled
    /\ tle_times = Idle /\ windows = Idle
    /\ vessels = Idle /\ interp_out = Idle
    /\ StoreIdle

NextShape == CallComputeHits

SpecShape == InitShape /\ [][NextShape]_vars

\* C14: compute_hits on a satellite track of fewer than 2 samples fails with
\* an error, before anything is clipped or dispatched, and returns no hit set.
C14_ShortTrackRaises ==
    (HitsCalled /\ Len(sat_track) < 2) =>
        /\ hits_out.res.status = "ValueError"
        /\ ~hits_out.res.dispatched
        /\ hits_out.res.hits = <<>> /\ hits_out.res.mask = <<>>
        /\ hits_out.res.columns = <<>>

\* a call with a track of one sample and pings that a track would have seen
C14_Witness ==
    /\ HitsCalled
    /\ Len(sat_track) = 1
    /\ \E i \in 1..Len(vessel_points) :
          vessel_points[i].date_time = sat_track[1].date_time
    /\ hits_out.res.status = "ValueError"

\* C15: compute_hits given a vessel or a satellite time column that is not
\* sorted raises an error: it never returns a hit set computed from the
\* disordered times.
C15_UnsortedRaises ==
    (/\ HitsCalled
     /\ \/ ~NonDecreasing(Col(vessel_points, "date_time"))
        \/ ~StrictlyIncreasing(Col(sat_track, "date_time"))) =>
        hits_out.res.status # "ok"

\* C16: when the time clip leaves no ping, compute_hits returns, without
\* raising and without dispatching the kernel, an empty hit set with the
\* columns mmsi_id, date_time, lat, lon.
C16_EmptyClipReturnsEmptyFrame ==
    (HitsCalled /\ Len(sat_track) >= 2 /\ ClipRows = <<>>) =>
        /\ hits_out.res.status = "ok"
        /\ ~hits_out.res.dispatched
        /\ hits_out.res.hits = <<>>
        /\ hits_out.res.columns = <<"mmsi_id", "date_time", "lat", "lon">>

\* a call whose clip removed every one of several pings, all of them inside
\* the satellite's time range
C16_Witness ==
    /\ HitsCalled
    /\ Len(vessel_points) >= 2
    /\ ClipRows = <<>>
    /\ \A i \in 1..Len(vessel_points) :
          /\ sat_track[1].date_time <= vessel_points[i].date_time
          /\ vessel_points[i].date_time < sat_track[Len(sat_track)].date_time
    /\ hits_out.res.status = "ok"

(***************************************************************************)
(* sathelpers.py: SatelliteDataStore, the track archive.  One HDF5 file    *)
(* per norad id; a matrix is given by its columns and a column by its      *)
(* (positive) time stamp; 0 is a cell of an array that was created but not *)
(* written yet.  Every process has its own store object and its own        *)
(* PyTables registry of open files.  What the HDF5 library has written of  *)
(* a file that is open for writing is not fixed by the code (no flush, no  *)
(* close): it is any part of the pending content, chosen by LibFlush.      *)
(***************************************************************************)
MaxOps == 2

\* the variables of the other subsystems, not exercised with the archive
baseVars == <<sat_track, vessel_points, kernel_out, hits_out,
              tle_times, windows, vessels, interp_out, lateVars>>
BaseIdle ==
    /\ sat_track = Idle /\ vessel_points = Idle
    /\ kernel_out = Idle /\ hits_out = Idle
    /\ tle_times = Idle /\ windows = Idle
    /\ vessels = Idle /\ interp_out = Idle
    /\ LateIdle

NoradIds == {5, 7}
Matrices == {<<1, 2>>, <<3, 4>>}
Procs == {"writer", "reader"}

\* a file of the archive: whether the path exists, whether it holds the
\* array node s<norad_id>, and the node's columns
File(exists, node, data) == [exists |-> exists, node |-> node, data |-> data]
NoFile == File(FALSE, FALSE, <<>>)

\* the first k columns written, the others still at the fill value
Prefix(data, k) == [j \in 1..Len(data) |-> IF j <= k THEN data[j] ELSE 0]

\* np.unique(dataz[0, :], return_index=True) and dataz[:, indices]: the
\* columns in increasing time, one per time stamp
RECURSIVE SortedSeq(_)
SortedSeq(S) ==
    IF S = {} THEN <<>>
    ELSE LET x == CHOOSE x \in S : \A y \in S : x <= y
         IN  <<x>> \o SortedSeq(S \ {x})
Unique(data) == SortedSeq({data[j] : j \in 1..Len(data)})

\* the outcome of the last operation of a process; acceptable, overlap and
\* last are ghosts taken from history
NoResult == [op |-> "none"]
Result(op, id, status, data, ghost) ==
    [op |-> op, id |-> id, status |-> status, data |-> data,
     acceptable |-> ghost.acceptable, overlap |-> ghost.overlap, last |-> ghost.last]
GhostAt(id) ==
    [acceptable |-> history[id].expect, overlap |-> history[id].writing,
     last |-> history[id].last]

\* open_file(path, mode) refuses a file this process already holds open,
\* unless both the request and the open handles are read-only
AlreadyOpen(p, id, mode) ==
    IF mode = "r" THEN <<id, "w">> \in store[p].handles
    ELSE \E m \in {"r", "w"} : <<id, m>> \in store[p].handles

InitStore ==
    /\ archive \in [NoradIds -> {NoFile} \cup {File(TRUE, TRUE, M) : M \in Matrices}]
    /\ store = [p \in Procs |->
                  [alive |-> TRUE, handles |-> {},
                   buffer |-> [id \in NoradIds |-> [node |-> FALSE, data |-> <<>>]],
                   pc |-> "idle", op |-> NoResult, ops |-> 0, result |-> NoResult]]
    /\ history = [id \in NoradIds |->
                    [expect |-> {IF archive[id].exists THEN archive[id].data ELSE None},
                     last |-> "initial", writing |-> FALSE]]
    /\ build_out = Idle /\ tle_table = Idle /\ records = Idle
    /\ BaseIdle

CanStart(p) == store[p].alive /\ store[p].pc = "idle" /\ store[p].ops < MaxOps

\* put_precomputed_tracks, line 276: f = self._open_file_for_id(norad_id, "w").
\* open_file(path, "w") raises if this process holds the file open; otherwise
\* it creates the file or truncates the one that is there.  A reader that is
\* in the middle of a get of this id now overlaps a write (ghost).
PutOpen(p, id, M) ==
    /\ p = "writer" /\ CanStart(p)
    /\ IF AlreadyOpen(p, id, "w")
       THEN /\ store' = [store EXCEPT
                           ![p].ops = @ + 1,
                           ![p].result = Result("put", id, "ValueError", <<>>, GhostAt(id))]
            /\ history' = [history EXCEPT ![id].last = "put_failed"]
            /\ UNCHANGED archive
       ELSE /\ archive' = [archive EXCEPT ![id] = File(TRUE, FALSE, <<>>)]
            /\ store' = [q \in Procs |->
                  IF q = p
                  THEN [store[p] EXCEPT
                          !.handles = @ \cup {<<id, "w">>},
                          !.buffer[id] = [node |-> FALSE, data |-> <<>>],
                          !.pc = "put_opened",
                          !.ops = @ + 1,
                          !.op = [op |-> "put", id |-> id, data |-> M,
                                  old |-> history[id].expect]]
                  ELSE IF store[q].pc = "get_opened" /\ store[q].op.id = id
                       THEN [store[q] EXCEPT !.op.overlap = TRUE,
                                             !.op.acceptable = @ \cup {M}]
                       ELSE store[q]]
            /\ history' = [history EXCEPT ![id].expect = @ \cup {M},
                                          ![id].writing = TRUE]
    /\ UNCHANGED <<build_out, tle_table, records>>
    /\ UNCHANGED baseVars

\* lines 277-282: new_array = CArray(f.root, "s%d" % norad_id, ...): the node
\* exists in the open file, every cell at the fill value
PutCreate(p) ==
    /\ store[p].alive /\ store[p].pc = "put_opened"
    /\ store' = [store EXCEPT
                   ![p].buffer[store[p].op.id] =
                       [node |-> TRUE, data |-> Prefix(store[p].op.data, 0)],
                   ![p].pc = "put_created"]
    /\ UNCHANGED <<archive, history, build_out, tle_table, records>>
    /\ UNCHANGED baseVars

\* lines 283-284: new_array[:] = data; return new_array.  The file stays
\* open for writing: nothing flushes or closes it.
PutAssign(p) ==
    /\ store[p].alive /\ store[p].pc = "put_created"
    /\ LET id == store[p].op.id
           M == store[p].op.data
       IN  /\ store' = [store EXCEPT
                          ![p].buffer[id].data = M,
                          ![p].pc = "idle",
                          ![p].result = Result("put", id, "ok", M, GhostAt(id))]
           /\ history' = [history EXCEPT ![id] =
                             [expect |-> {M}, last |-> "put_ok", writing |-> FALSE]]
    /\ UNCHANGED <<archive, build_out, tle_table, records>>
    /\ UNCHANGED baseVars

\* lines 277-283: an exception in CArray(...) or in the assignment (the
\* library or the disk failing) leaves put_precomputed_tracks at once; the
\* file stays open
PutRaise(p) ==
    /\ store[p].alive /\ store[p].pc \in {"put_opened", "put_created"}
    /\ LET id == store[p].op.id
       IN  /\ store' = [store EXCEPT
                          ![p].pc = "idle",
                          ![p].result = Result("put", id, "failed", <<>>, GhostAt(id))]
           /\ history' = [history EXCEPT ![id] =
                             [expect |-> store[p].op.old, last |-> "put_failed",
                              writing |-> FALSE]]
    /\ UNCHANGED <<archive, build_out, tle_table, records>>
    /\ UNCHANGED baseVars

\* the HDF5 library writing out part of the pending content of a file that
\* is open for writing
LibFlush(p, id) ==
    /\ store[p].alive /\ <<id, "w">> \in store[p].handles
    /\ \E k \in 0..Len(store[p].buffer[id].data) :
          LET f == File(TRUE, store[p].buffer[id].node,
                        Prefix(store[p].buffer[id].data, k))
          IN  f # archive[id] /\ archive' = [archive EXCEPT ![id] = f]
    /\ UNCHANGED <<store, history, build_out, tle_table, records>>
    /\ UNCHANGED baseVars

\* the process ends between two operations: PyTables closes the files it
\* still holds open, which writes out their pending content
ProcExit(p) ==
    /\ store[p].alive /\ store[p].pc = "idle"
    /\ archive' = [id \in NoradIds |->
                     IF <<id, "w">> \in store[p].handles
                     THEN File(TRUE, store[p].buffer[id].node, store[p].buffer[id].data)
                     ELSE archive[id]]
    /\ store' = [store EXCEPT ![p].alive = FALSE, ![p].handles = {}]
    /\ UNCHANGED <<history, build_out, tle_table, records>>
    /\ UNCHANGED baseVars

\* get_precomputed_tracks, line 301: array_node = self._get_array(norad_id),
\* i.e. open_file(path, "r") and the lookup of the node s<norad_id>.  A
\* failed lookup leaves the file open.
GetOpen(p, id) ==
    /\ CanStart(p)
    /\ LET status == IF AlreadyOpen(p, id, "r") THEN "ValueError"
                     ELSE IF ~archive[id].exists THEN "IOError"
                     ELSE IF ~archive[id].node THEN "NoSuchNodeError"
                     ELSE "ok"
       IN  IF status = "ok"
           THEN store' = [store EXCEPT
                            ![p].ops = @ + 1,
                            ![p].handles = @ \cup {<<id, "r">>},
                            ![p].pc = "get_opened",
                            ![p].op = [op |-> "get", id |-> id,
                                       acceptable |-> history[id].expect,
                                       overlap |-> history[id].writing,
                                       last |-> history[id].last]]
           ELSE store' = [store EXCEPT
                            ![p].ops = @ + 1,
                            ![p].handles = IF status = "NoSuchNodeError"
                                           THEN @ \cup {<<id, "r">>} ELSE @,
                            ![p].result = Result("get", id, status, <<>>, GhostAt(id))]
    /\ UNCHANGED <<archive, history, build_out, tle_table, records>>
    /\ UNCHANGED baseVars

\* lines 302-314: the times and the columns are read from the file as it is
\* now (start and end chosen to span every time stamp), the read handle is
\* closed, and the columns are returned one per time stamp
GetRead(p) ==
    /\ store[p].alive /\ store[p].pc = "get_opened"
    /\ LET id == store[p].op.id
           f == archive[id]
           ghost == [acceptable |-> store[p].op.acceptable,
                     overlap |-> store[p].op.overlap, last |-> store[p].op.last]
       IN  IF ~f.node
           THEN store' = [store EXCEPT
                            ![p].pc = "idle",
                            ![p].result = Result("get", id, "HDF5ExtError", <<>>, ghost)]
           ELSE store' = [store EXCEPT
                            ![p].pc = "idle",
                            ![p].handles = @ \ {<<id, "r">>},
                            ![p].result = Result("get", id, "ok", Unique(f.data), ghost)]
    /\ UNCHANGED <<archive, history, build_out, tle_table, records>>
    /\ UNCHANGED baseVars

NextStore ==
    \E p \in Procs :
        \/ \E id \in NoradIds, M \in Matrices : PutOpen(p, id, M)
        \/ PutCreate(p)
        \/ PutAssign(p)
        \/ PutRaise(p)
        \/ \E id \in NoradIds : LibFlush(p, id)
        \/ ProcExit(p)
        \/ \E id \in NoradIds : GetOpen(p, id)
        \/ GetRead(p)

SpecStore == InitStore /\ [][NextStore]_vars

(***************************************************************************)
(* Properties of the archive (SpecStore).                                  *)
(***************************************************************************)
\* the outcome of a get matches what the archive was asked to hold
ReadsAcceptable(r) == r.status = "ok" /\ r.data \in r.acceptable

\* C12: a reader whose get_precomputed_tracks(id) overlaps a
\* put_precomputed_tracks(id, M') on an entry holding M gets M in full or M'
\* in full: no error, no missing entry, no partial or mixed matrix.
C12_ReadersSeeOldOrNew ==
    \A p \in Procs \ {"writer"} :
        LET r == store[p].result
        IN  (r.op = "get" /\ r.overlap /\ None \notin r.acceptable) => ReadsAcceptable(r)

\* C13: a get of id that begins after put_precomputed_tracks(id, M) has
\* returned, from the same store or from another process, and overlaps no
\* later write, returns exactly M.
C13_ReadAfterWrite ==
    \A p \in Procs :
        LET r == store[p].result
        IN  (r.op = "get" /\ ~r.overlap /\ r.last = "put_ok") => ReadsAcceptable(r)

\* C19: after a put_precomputed_tracks(id, M') that failed on an entry
\* holding M, a get of id still returns M in full.
C19_FailedPutKeepsPriorEntry ==
    \A p \in Procs :
        LET r == store[p].result
        IN  (r.op = "get" /\ ~r.overlap /\ r.last = "put_failed"
             /\ None \notin r.acceptable) => ReadsAcceptable(r)

\* an entry that no put has touched reads back as it was, or as missing
UntouchedEntryReadsBack ==
    \A p \in Procs :
        LET r == store[p].result
        IN  (r.op = "get" /\ ~r.overlap /\ r.last = "initial") =>
                IF None \in r.acceptable THEN r.status = "IOError"
                ELSE ReadsAcceptable(r)

(***************************************************************************)
(* sathelpers.py: the track builder, compute_tlla_sequence and the main    *)
(* program.  A sample (one column of the 4xN block) is given by its time,  *)
(* as a numerator t over den, and by the TLE it was propagated from; the   *)
(* propagator raises for the TLEs in failing.                              *)
(***************************************************************************)
\* the test of line 206 never true: an empty plan goes on to np.hstack([])
EmptyPlanNever(plan) == FALSE

\* line 206: if not windows
EmptyPlan(plan) == Len(plan) = 0

\* the samples one minute apart from start_epoch on
compute_lat_long_distMinuteSteps(start_epoch, end_epoch, tle, failing) ==
    LET n_time_steps == (2 * (end_epoch - start_epoch) + 60) \div 120
    IN  [status |-> "ok",
         cols |-> [j \in 1..n_time_steps |->
                     [t |-> (start_epoch + 60 * (j - 1)) * (n_time_steps - 1),
                      den |-> n_time_steps - 1,
                      tle |-> tle]]]

\* compute_lat_long_dist, lines 170-188: n_time_steps samples (the planner's
\* windows are whole minutes long, so round() has no tie to break), their
\* times np.linspace(start_epoch, end_epoch, n_time_steps)
compute_lat_long_dist(start_epoch, end_epoch, tle, failing) ==
    IF ~WindowAssertion(start_epoch, end_epoch)
    THEN [status |-> "AssertionError", cols |-> <<>>]
    ELSE IF tle \in failing
    THEN [status |-> "PropagatorError", cols |-> <<>>]
    ELSE LET n_time_steps == (2 * (end_epoch - start_epoch) + 60) \div 120
         IN  [status |-> "ok",
              cols |-> [j \in 1..n_time_steps |->
                          [t |-> start_epoch * (n_time_steps - 1)
                                 + (j - 1) * (end_epoch - start_epoch),
                           den |-> n_time_steps - 1,
                           tle |-> tle]]]

\* the blocks stacked in reverse order of the windows
RECURSIVE ConcatFromPrepending(_, _, _)
ConcatFromPrepending(plan, j, failing) ==
    IF j > Len(plan) THEN [status |-> "ok", cols |-> <<>>]
    ELSE LET tlla == compute_lat_long_dist(plan[j].start, plan[j].end, plan[j].tle, failing)
         IN  IF tlla.status # "ok" THEN tlla
             ELSE LET rest == ConcatFromPrepending(plan, j + 1, failing)
                  IN  IF rest.status # "ok" THEN rest
                      ELSE [status |-> "ok", cols |-> rest.cols \o tlla.cols]

\* lines 210-216: the loop over the windows from window j on, and np.hstack;
\* an exception of compute_lat_long_dist leaves the loop and the function
RECURSIVE ConcatFrom(_, _, _)
ConcatFrom(plan, j, failing) ==
    IF j > Len(plan) THEN [status |-> "ok", cols |-> <<>>]
    ELSE LET tlla == compute_lat_long_dist(plan[j].start, plan[j].end, plan[j].tle, failing)
         IN  IF tlla.status # "ok" THEN tlla
             ELSE LET rest == ConcatFrom(plan, j + 1, failing)
                  IN  IF rest.status # "ok" THEN rest
                      ELSE [status |-> "ok", cols |-> tlla.cols \o rest.cols]

\* compute_tlla_sequence: status "none" is the return value None;
\* np.hstack of an empty list raises ValueError
compute_tlla_sequence(times, failing) ==
    LET plan == get_compute_windows(times)
    IN  IF EmptyPlan(plan) THEN [status |-> "none", cols |-> <<>>]
        ELSE IF Len(plan) = 0 THEN [status |-> "ValueError", cols |-> <<>>]
        ELSE ConcatFrom(plan, 1, failing)

\* lines 352-361 of the main program, for --noradID norad_id: the report it
\* prints and the archive it leaves when the process has ended (the file
\* put_precomputed_tracks left open is closed at exit)
BuildTrack(files, norad_id, times, failing) ==
    IF files[norad_id].exists
    THEN [report |-> "already_in_index", files |-> files]
    ELSE LET track_data == compute_tlla_sequence(times, failing)
         IN  CASE track_data.status = "none" ->
                    [report |-> "no_data", files |-> files]
               [] track_data.status = "ok" ->
                    [report |-> "completed",
                     files |-> [files EXCEPT ![norad_id] = File(TRUE, TRUE, track_data.cols)]]
               [] OTHER ->
                    [report |-> track_data.status, files |-> files]

(***************************************************************************)
(* The builder run once for one norad id.                                  *)
(***************************************************************************)
BuildEpochs == {30, 130, 200, 250, 400, 700}
BuildEpochVectors ==
    {t \in UNION {[1..n -> BuildEpochs] : n \in 0..(MaxTles - 1)} : NonDecreasing(t)}

InitBuild ==
    /\ tle_times \in BuildEpochVectors
    /\ archive \in [NoradIds -> {NoFile, File(TRUE, TRUE, <<1, 2>>)}]
    /\ \E norad_id \in NoradIds, failing \in SUBSET (0..(Len(tle_times) - 1)) :
          build_out = [status |-> "not_run", norad_id |-> norad_id, failing |-> failing]
    /\ store = Idle /\ history = Idle /\ tle_table = Idle /\ records = Idle
    /\ sat_track = Idle /\ vessel_points = Idle
    /\ kernel_out = Idle /\ hits_out = Idle
    /\ windows = Idle /\ vessels = Idle /\ interp_out = Idle
    /\ LateIdle

\* before is a ghost: the archive as the run found it
RunBuild ==
    /\ build_out.status = "not_run"
    /\ LET done == BuildTrack(archive, build_out.norad_id, tle_times, build_out.failing)
       IN  /\ archive' = done.files
           /\ build_out' = [status |-> "run", norad_id |-> build_out.norad_id,
                            failing |-> build_out.failing, report |-> done.report,
                            before |-> archive]
    /\ UNCHANGED <<store, history, tle_table, records>>
    /\ UNCHANGED baseVars

NextBuild == RunBuild

SpecBuild == InitBuild /\ [][NextBuild]_vars

(***************************************************************************)
(* Properties of the builder (SpecBuild).                                  *)
(***************************************************************************)
BuildRan == build_out.status = "run" /\ build_out.report # "already_in_index"
BuildPlan == get_compute_windows(tle_times)
\* the samples of the windows whose propagation does not raise, in plan order
SurvivingSamples ==
    ConcatFrom(SelectSeq(BuildPlan, LAMBDA w : w.tle \notin build_out.failing), 1, {}).cols

\* C17: a build whose window plan is empty (no TLE, or every window dropped
\* as too short) reports "no data", does not raise, and leaves the archive
\* as it was: no entry created or changed.
C17_EmptyPlanWritesNothing ==
    (BuildRan /\ BuildPlan = <<>>) =>
        /\ build_out.report = "no_data"
        /\ archive = build_out.before

\* a build with TLEs whose windows were all dropped, next to one without TLE
C17_Witness ==
    /\ BuildRan
    /\ BuildPlan = <<>>
    /\ Len(tle_times) >= 2
    /\ build_out.report = "no_data"

\* C18: when the propagator raises for some windows only those are skipped:
\* the samples of the other windows are concatenated and written; when it
\* raises for every window the build reports "no data" and writes nothing.
C18_FailedWindowsSkipped ==
    (BuildRan /\ \E j \in 1..Len(BuildPlan) : BuildPlan[j].tle \in build_out.failing) =>
        IF \A j \in 1..Len(BuildPlan) : BuildPlan[j].tle \in build_out.failing
        THEN build_out.report = "no_data" /\ archive = build_out.before
        ELSE /\ build_out.report = "completed"
             /\ archive[build_out.norad_id] = File(TRUE, TRUE, SurvivingSamples)

\* a build without propagator failure writes the samples of every window
BuildWritesAllWindows ==
    (BuildRan /\ BuildPlan # <<>>
       /\ \A j \in 1..Len(BuildPlan) : BuildPlan[j].tle \notin build_out.failing) =>
        /\ build_out.report = "completed"
        /\ archive[build_out.norad_id] = File(TRUE, TRUE, SurvivingSamples)
        /\ \A id \in NoradIds \ {build_out.norad_id} : archive[id] = build_out.before[id]

(***************************************************************************)
(* sathelpers.py: get_all_tles and tle_dataframe.  A row of the table      *)
(* tle_sorted is (epoch, norad_id, tle1, tle2); the two lines are given by *)
(* the element set number they carry.                                      *)
(***************************************************************************)
MaxRecords == 3

\* get_el_number(tle1, tle2)
get_el_number(tle) == tle.elnum

\* a stable sort of the rows by epoch: the row goes behind the rows of the
\* same epoch that came before it
RECURSIVE InsertByEpoch(_, _)
InsertByEpoch(row, sorted) ==
    IF sorted = <<>> THEN <<row>>
    ELSE IF row.epoch < Head(sorted).epoch THEN <<row>> \o sorted
         ELSE <<Head(sorted)>> \o InsertByEpoch(row, Tail(sorted))
RECURSIVE SortByEpoch(_)
SortByEpoch(rows) ==
    IF rows = <<>> THEN <<>>
    ELSE InsertByEpoch(rows[Len(rows)], SortByEpoch(SubSeq(rows, 1, Len(rows) - 1)))

\* line 35: frame.sort_values(["epoch", "elnum"]) returns a sorted copy; the
\* elnum column holds, in every row, the one generator object of line 32,
\* so the copy is sorted by epoch alone
sort_values(frame) == SortByEpoch(frame)

\* tle_dataframe, lines 25-36: the frame of the records with the column
\* elnum added; the sorted copy of line 35 is not kept
tle_dataframe(recs) ==
    LET frame == [i \in 1..Len(recs) |->
                    [epoch |-> recs[i].epoch, norad_id |-> recs[i].norad_id,
                     tle |-> recs[i].tle, elnum |-> "generator"]]
        sorted_copy == sort_values(frame)
    IN  frame

\* get_all_tles, lines 49-54: read_where keeps the table's order;
\* sorted(records, key=lambda row: row[0]) is stable
get_all_tles(table, norad_id) ==
    tle_dataframe(SortByEpoch(SelectSeq(table, LAMBDA row : row.norad_id = norad_id)))

TleRows == [epoch : {100, 200}, norad_id : {5, 7}, tle : [elnum : {1, 2}]]
TleTables == UNION {[1..n -> TleRows] : n \in 0..MaxRecords}

InitTles ==
    /\ tle_table \in TleTables
    /\ records = NotCalled
    /\ archive = Idle /\ store = Idle /\ history = Idle /\ build_out = Idle
    /\ BaseIdle

CallGetAllTles ==
    /\ records = NotCalled
    /\ \E norad_id \in NoradIds :
          records' = [status |-> "ok", norad_id |-> norad_id,
                      frame |-> get_all_tles(tle_table, norad_id)]
    /\ UNCHANGED <<archive, store, history, build_out, tle_table>>
    /\ UNCHANGED baseVars

NextTles == CallGetAllTles

SpecTles == InitTles /\ [][NextTles]_vars

(***************************************************************************)
(* Properties of the TLE records (SpecTles).                               *)
(***************************************************************************)
\* C20: the records returned for one norad_id are sorted by epoch, and
\* records of equal epoch are in ascending element set number.
C20_RecordsSortedByEpochThenElnum ==
    records.status = "ok" =>
        \A i \in 1..(Len(records.frame) - 1) :
            \/ records.frame[i].epoch < records.frame[i + 1].epoch
            \/ /\ records.frame[i].epoch = records.frame[i + 1].epoch
               /\ get_el_number(records.frame[i].tle)
                    <= get_el_number(records.frame[i + 1].tle)

\* the records returned are those of the norad_id, in non-decreasing epoch,
\* records of equal epoch in the order of the table
RecordsSortedByEpoch ==
    records.status = "ok" =>
        /\ \A i \in 1..Len(records.frame) : records.frame[i].norad_id = records.norad_id
        /\ \A i \in 1..(Len(records.frame) - 1) :
              records.frame[i].epoch <= records.frame[i + 1].epoch
        /\ Len(records.frame)
             = Len(SelectSeq(tle_table, LAMBDA row : row.norad_id = records.norad_id))

(***************************************************************************)
(* The interpolator on tracks away from the equator: frames of up to two   *)
(* rows at latitudes 0 and 1 degree, and the track of test_interpolate.py  *)
(* (ten rows from (0, 0) to (9, 9) degrees) with its 600 s steps and 150 s *)
(* interval scaled to 8 s steps for the intervals 2 and 3.                 *)
(***************************************************************************)
LatRowValues ==
    [mmsi_id : {1, 2}, date_time : 0..MaxRowTime, lat : {0, 60}, lon : {0, 60, 120}]
TestTrack ==
    [i \in 1..10 |-> [mmsi_id |-> 1, date_time |-> 8 * (i - 1),
                      lat |-> 60 * (i - 1), lon |-> 60 * (i - 1)]]
LatFrames ==
    {f \in UNION {[1..n -> LatRowValues] : n \in 1..(MaxRows - 1)} :
        \A i \in 1..(Len(f) - 1) : RowOrder(f[i], f[i + 1])} \cup {TestTrack}

InitInterpLat ==
    /\ vessels \in LatFrames
    /\ interp_out = NotCalled
    /\ sat_track = Idle /\ vessel_points = Idle
    /\ kernel_out = Idle /\ hits_out = Idle
    /\ tle_times = Idle /\ windows = Idle
    /\ StoreIdle

SpecInterpLat == InitInterpLat /\ [][NextInterp]_vars

\* the great-circle (haversine) distance of two points a few degrees apart
\* exceeds maxdist: as haversine_dist_exceeds, with the cosine of the
\* latitude in degrees
GreatCircleExceeds(lon1, lat1, lon2, lat2, maxdist) ==
    LET cosdeg(lat) == <<10000, 9998, 9994, 9986, 9976, 9962, 9945, 9925, 9903,
                         9877>>[lat \div 60 + 1]
        d == Abs(lon2 - lon1) % 21600
        dlon == IF d > 10800 THEN 21600 - d ELSE d
        dlat == Abs(lat2 - lat1)
        coscos == (cosdeg(lat1) * cosdeg(lat2)) \div 10000
    IN  10000 * dlat * dlat + coscos * dlon * dlon > maxdist * maxdist * 2912

\* the rows of the output between input row i and the next input row
InsertedAfter(i) ==
    LET at(k) == CHOOSE p \in 1..Len(interp_out.rows) : interp_out.origin[p] = k
        last == IF i = Len(vessels) THEN Len(interp_out.rows) ELSE at(i + 1) - 1
    IN  SubSeq(interp_out.rows, at(i) + 1, last)

\* after every input row the output holds exactly the rows that the rule
\* "same vessel, dt > maxdt, distance <= maxdist: K - 1 rows, K = ceil(dt /
\* maxdt), the j-th at fraction j/K of time (to the whole second), lat and
\* lon" asks for, with Exceeds as the distance test
FillsExactly(Exceeds(_, _, _, _, _)) ==
    interp_out.status = "ok" =>
        \A i \in 1..Len(vessels) :
            LET cur == vessels[i]
                ins == InsertedAfter(i)
            IN  IF i = Len(vessels) THEN ins = <<>>
                ELSE
                LET next == vessels[i + 1]
                    dt == next.date_time - cur.date_time
                    K == (dt + interp_out.maxdt - 1) \div interp_out.maxdt
                IN  IF /\ cur.mmsi_id = next.mmsi_id
                       /\ dt > interp_out.maxdt
                       /\ ~Exceeds(cur.lon, cur.lat, next.lon, next.lat, interp_out.maxdist)
                    THEN /\ Len(ins) = K - 1
                         /\ \A j \in 1..Len(ins) :
                               /\ ins[j].mmsi_id = cur.mmsi_id
                               /\ K * (ins[j].date_time - cur.date_time) <= j * dt
                               /\ j * dt < K * (ins[j].date_time - cur.date_time + 1)
                               /\ K * (ins[j].lat - cur.lat) = j * (next.lat - cur.lat)
                               /\ K * (ins[j].lon - cur.lon) = j * (next.lon - cur.lon)
                    ELSE ins = <<>>

\* C22: interpolate_track inserts rows between consecutive rows exactly when
\* they have the same mmsi_id, are more than maxdt apart in time and at most
\* maxdist apart in haversine distance: then K - 1 rows, K = ceil(dt / maxdt),
\* the j-th at fraction j/K of time, lat and lon with cur's mmsi_id; in every
\* other case nothing.  (The output length is then the input length plus the
\* sum of K - 1 over the filled gaps.)
C22_FillsExactlyWithinDistance == FillsExactly(GreatCircleExceeds)

\* the same rule with the distance as haversine_dist computes it holds, and
\* the ten-row test track with K = 4 in every gap gives 10 + 9 * 3 = 37 rows
FillsExactlyByOwnDistance ==
    /\ FillsExactly(haversine_dist_exceeds)
    /\ (interp_out.status = "ok" /\ vessels = TestTrack /\ interp_out.maxdt = 2) =>
          Len(interp_out.rows) = 37

(***************************************************************************)
(* Reading a time range of a stored track.  A stored track is the sequence *)
(* of the columns of its matrix, [t, v]: t the time stamp of row 0 and v   *)
(* standing for the column's lat, lon and radius.                          *)
(***************************************************************************)
MaxColumns == 4
MaxFetchTime == 3

\* np.unique(row, return_index=True)[1] keeping the last of equal values
unique_indexLast(row) ==
    LET vals == SortedSeq({row[j] : j \in 1..Len(row)})
    IN  [k \in 1..Len(vals) |->
            (CHOOSE j \in 1..Len(row) :
                row[j] = vals[k] /\ \A i \in (j + 1)..Len(row) : row[i] # vals[k]) - 1]

\* np.unique(row, return_index=True)[1]: for each distinct value, in
\* increasing order of the values, the index of its first occurrence
unique_index(row) ==
    LET vals == SortedSeq({row[j] : j \in 1..Len(row)})
    IN  [k \in 1..Len(vals) |->
            (CHOOSE j \in 1..Len(row) :
                row[j] = vals[k] /\ \A i \in 1..(j - 1) : row[i] # vals[k]) - 1]

\* get_precomputed_tracks once the node is open: lines 302-314
get_precomputed_tracks(array_node, start, end) ==
    LET times == Col(array_node, "t")
        start_index == searchsorted(times, start, "left")
        end_index == searchsorted(times, end, "left")
        dataz == Slice(array_node, start_index, end_index)
        indices == unique_index(Col(dataz, "t"))
    IN  [k \in 1..Len(indices) |-> At(dataz, indices[k])]

InitFetch ==
    /\ \E track \in UNION {[1..n -> [t : 0..MaxFetchTime, v : {1, 2}]] : n \in 0..MaxColumns},
          start \in 0..(MaxFetchTime + 1), end \in 0..(MaxFetchTime + 1) :
          /\ NonDecreasing(Col(track, "t"))
          /\ fetch = [status |-> "stored", track |-> track, start |-> start, end |-> end]
    /\ pool = Idle /\ search = Idle /\ handles = Idle /\ fov = Idle
    /\ archive = Idle /\ store = Idle /\ history = Idle
    /\ build_out = Idle /\ tle_table = Idle /\ records = Idle
    /\ sat_track = Idle /\ vessel_points = Idle
    /\ kernel_out = Idle /\ hits_out = Idle
    /\ tle_times = Idle /\ windows = Idle
    /\ vessels = Idle /\ interp_out = Idle

CallGetPrecomputedTracks ==
    /\ fetch.status = "stored"
    /\ fetch' = [status |-> "returned", track |-> fetch.track,
                 start |-> fetch.start, end |-> fetch.end,
                 out |-> get_precomputed_tracks(fetch.track, fetch.start, fetch.end)]
    /\ UNCHANGED <<pool, search, handles, fov>>
    /\ UNCHANGED <<archive, store, history, build_out, tle_table, records>>
    /\ UNCHANGED <<sat_track, vessel_points, kernel_out, hits_out,
                   tle_times, windows, vessels, interp_out>>

NextFetch == CallGetPrecomputedTracks

SpecFetch == InitFetch /\ [][NextFetch]_vars

\* C23: get_precomputed_tracks(id, start, end) on a stored track with
\* non-decreasing times returns the columns with index in [lo, hi), lo and hi
\* the lower bounds of start and end on the time row, with later columns that
\* repeat an earlier time stamp dropped: every returned time is in
\* [start, end), the returned times are strictly increasing, and every
\* distinct stored time stamp in [start, end) appears exactly once, with the
\* values of its first occurrence.
C23_RangeReadFirstOccurrences ==
    fetch.status = "returned" =>
        LET track == fetch.track
            out == fetch.out
            lo == Cardinality({j \in 1..Len(track) : track[j].t < fetch.start})
            hi == Cardinality({j \in 1..Len(track) : track[j].t < fetch.end})
            kept == {j \in (lo + 1)..hi : \A i \in (lo + 1)..(j - 1) : track[i].t # track[j].t}
        IN  /\ Len(out) = Cardinality(kept)
            /\ \A k \in 1..Len(out) :
                  \E j \in kept : /\ out[k] = track[j]
                                  /\ Cardinality({i \in kept : i < j}) = k - 1
            /\ \A k \in 1..Len(out) : fetch.start <= out[k].t /\ out[k].t < fetch.end
            /\ StrictlyIncreasing(Col(out, "t"))
            /\ \A j \in 1..Len(track) :
                  (fetch.start <= track[j].t /\ track[j].t < fetch.end) =>
                      LET first == CHOOSE i \in 1..Len(track) :
                                      /\ track[i].t = track[j].t
                                      /\ \A h \in 1..(i - 1) : track[h].t # track[j].t
                      IN  /\ Cardinality({k \in 1..Len(out) : out[k].t = track[j].t}) = 1
                          /\ \E k \in 1..Len(out) : out[k] = track[first]

\* a read that cuts columns off at both ends and drops a repeated time stamp
\* whose columns differ
C23_Witness ==
    /\ fetch.status = "returned"
    /\ \E j \in 1..(Len(fetch.track) - 1) :
          /\ fetch.track[j].t = fetch.track[j + 1].t
          /\ fetch.track[j].v # fetch.track[j + 1].v
          /\ fetch.start <= fetch.track[j].t /\ fetch.track[j].t < fetch.end
    /\ fetch.track[1].t < fetch.start
    /\ fetch.track[Len(fetch.track)].t >= fetch.end
    /\ Len(fetch.out) = 1

(***************************************************************************)
(* The parallel dispatch of compute_hits, lines 250-271, one kernel        *)
(* iteration at a time.  _compute is a guvectorize kernel with             *)
(* target="parallel": the rows of the arrays reshaped to (-1, chunksize)   *)
(* are each swept by one worker, all of them writing through views of the  *)
(* one hit_mask; the tail is a second call, made when the first has        *)
(* returned.  Worker w < workers sweeps row w, worker number workers is    *)
(* the tail call.  writers is a ghost: per mask cell, the workers that     *)
(* wrote it.                                                               *)
(***************************************************************************)
PoolWorkers == {2, 3}

\* rows that start one cell early: neighbouring rows share a cell
ChunkStartOverlapping(row, chunksize) == row * (chunksize - 1)

\* np.reshape(v[:totalsize], (-1, chunksize)): row number row is the view of
\* the cells from row * chunksize on
ChunkStart(row, chunksize) == row * chunksize

\* the index range [start, start + len) of the mask a worker's output is a
\* view of
PoolChunk(w, workers, chunksize, numvessels) ==
    IF w < workers
    THEN [start |-> ChunkStart(w, chunksize), len |-> chunksize]
    ELSE [start |-> chunksize * workers, len |-> numvessels - chunksize * workers]

InitPool ==
    /\ \E track \in SatTracksOf({k \in SatKinds : k.alt > EARTH_RADIUS}),
          points \in VesselFrames \ {<<>>}, workers \in PoolWorkers :
          pool = [status |-> "called", sat_track |-> track, vessel_points |-> points,
                  workers |-> workers]
    /\ fetch = Idle /\ search = Idle /\ handles = Idle /\ fov = Idle
    /\ archive = Idle /\ store = Idle /\ history = Idle
    /\ build_out = Idle /\ tle_table = Idle /\ records = Idle
    /\ sat_track = Idle /\ vessel_points = Idle
    /\ kernel_out = Idle /\ hits_out = Idle
    /\ tle_times = Idle /\ windows = Idle
    /\ vessels = Idle /\ interp_out = Idle

PoolUnchanged ==
    /\ UNCHANGED <<fetch, search, handles, fov>>
    /\ UNCHANGED <<archive, store, history, build_out, tle_table, records>>
    /\ UNCHANGED <<sat_track, vessel_points, kernel_out, hits_out,
                   tle_times, windows, vessels, interp_out>>

\* lines 250-265: the zeroed mask, the chunk size and the reshape, which
\* raises for chunksize = 0; every worker starts with the kernel's locals of
\* lines 111-115
PoolDispatch ==
    /\ pool.status = "called"
    /\ LET numvessels == Len(pool.vessel_points)
           chunksize == numvessels \div pool.workers
           sat_time == Col(pool.sat_track, "date_time")
       IN  IF chunksize = 0
           THEN pool' = [status |-> "ValueError", sat_track |-> pool.sat_track,
                         vessel_points |-> pool.vessel_points, workers |-> pool.workers]
           ELSE pool' = [status |-> "running", sat_track |-> pool.sat_track,
                         vessel_points |-> pool.vessel_points, workers |-> pool.workers,
                         chunksize |-> chunksize,
                         hit_mask |-> [c \in 1..numvessels |-> FALSE],
                         writers |-> [c \in 1..numvessels |-> {}],
                         rows |-> [w \in 0..pool.workers |->
                                     LET chunk == PoolChunk(w, pool.workers, chunksize,
                                                            numvessels)
                                     IN  [st |-> KernelInit(sat_time,
                                                    [c \in 1..chunk.len |-> FALSE]),
                                          i |-> 0, done |-> chunk.len = 0]]]
    /\ PoolUnchanged

\* one iteration of the kernel's loop by worker w, lines 117-168; a hit is
\* written through the worker's view into the shared mask.  The tail call is
\* made after the call on the rows has returned.
PoolStep(w) ==
    /\ pool.status = "running"
    /\ ~pool.rows[w].done
    /\ w = pool.workers => \A r \in 0..(pool.workers - 1) : pool.rows[r].done
    /\ LET numvessels == Len(pool.vessel_points)
           chunk == PoolChunk(w, pool.workers, pool.chunksize, numvessels)
           sat_args == SatArgs(pool.sat_track, FALSE)
           mine(name) == Slice(Col(pool.vessel_points, name), chunk.start,
                               chunk.start + chunk.len)
           i == pool.rows[w].i
           st == LoopBody(sat_args[1], sat_args[2], sat_args[3], sat_args[4],
                          mine("date_time"), mine("lat"), mine("lon"),
                          pool.rows[w].st, i, FALSE)
           wrote == st.output[i + 1] /\ ~pool.rows[w].st.output[i + 1]
           cell == chunk.start + i + 1
       IN  pool' = [pool EXCEPT
                      !.rows[w] = [st |-> st, i |-> i + 1,
                                   done |-> st.returned \/ i + 1 >= chunk.len],
                      !.hit_mask[cell] = IF wrote THEN TRUE ELSE @,
                      !.writers[cell] = IF wrote THEN @ \cup {w} ELSE @]
    /\ PoolUnchanged

\* line 272: both calls have returned
PoolJoin ==
    /\ pool.status = "running"
    /\ \A w \in 0..pool.workers : pool.rows[w].done
    /\ pool' = [pool EXCEPT !.status = "joined"]
    /\ PoolUnchanged

NextPool ==
    \/ PoolDispatch
    \/ \E w \in 0..3 : w <= pool.workers /\ PoolStep(w)
    \/ PoolJoin

SpecPool == InitPool /\ [][NextPool]_vars

\* C24: in the parallel dispatch no mask cell is written by two different
\* chunk workers, and the mask after the join is the same for every order and
\* interleaving of the workers: it is the mask that the chunks swept one after
\* the other give.
C24_DisjointChunksDeterministicMask ==
    /\ pool.status \in {"running", "joined"} =>
          \A c \in 1..Len(pool.writers) : Cardinality(pool.writers[c]) <= 1
    /\ pool.status = "joined" =>
          LET points == pool.vessel_points
              done == Dispatch(SatArgs(pool.sat_track, FALSE),
                               <<Col(points, "date_time"), Col(points, "lat"),
                                 Col(points, "lon")>>,
                               [c \in 1..Len(points) |-> FALSE], pool.workers, FALSE)
          IN  done.status = "ok" /\ pool.hit_mask = done.mask

\* a joined dispatch in which two row workers and the tail call each wrote a
\* cell and one cell was left unwritten
C24_Witness ==
    /\ pool.status = "joined"
    /\ \E a, b \in 1..Len(pool.writers) :
          /\ pool.writers[a] = {0}
          /\ pool.writers[b] = {1}
    /\ \E c \in 1..Len(pool.writers) : pool.writers[c] = {pool.workers}
    /\ \E c \in 1..Len(pool.hit_mask) : ~pool.hit_mask[c]

(***************************************************************************)
(* The sample times of the builder (SpecBuild).  A sample time is the      *)
(* fraction t / den of seconds.                                            *)
(***************************************************************************)
\* the blocks compute_lat_long_dist returned for the windows of the plan
\* during the run, for the windows whose propagation did not raise
BuildBlocks ==
    {[window |-> BuildPlan[j],
      cols |-> compute_lat_long_dist(BuildPlan[j].start, BuildPlan[j].end,
                                     BuildPlan[j].tle, build_out.failing).cols] :
        j \in {j \in 1..Len(BuildPlan) : BuildPlan[j].tle \notin build_out.failing}}

\* round((end - start) / 60) for a window of whole seconds
RoundedMinutes(w) == (2 * (w.end - w.start) + 60) \div 120

\* C25 as stated: for every window handed to compute_lat_long_dist the arrays
\* have round((end - start) / 60) entries whose times lie in [start, end], and
\* consecutive sample times are exactly 60 seconds apart.
C25_SamplesMinuteSpaced ==
    BuildRan =>
        \A b \in BuildBlocks :
            /\ Len(b.cols) = RoundedMinutes(b.window)
            /\ \A j \in 1..Len(b.cols) :
                  /\ b.window.start * b.cols[j].den <= b.cols[j].t
                  /\ b.cols[j].t <= b.window.end * b.cols[j].den
            /\ \A j \in 1..(Len(b.cols) - 1) :
                  b.cols[j + 1].t - b.cols[j].t = 60 * b.cols[j].den

\* C25: for every window handed to compute_lat_long_dist the arrays have
\* n = round((end - start) / 60) entries whose times lie in [start, end]; the
\* first is start, the last is end, and consecutive sample times are
\* (end - start) / (n - 1) seconds apart, which is more than 60 seconds.
C25_SamplesSpanWindowEvenly ==
    BuildRan =>
        \A b \in BuildBlocks :
            LET n == RoundedMinutes(b.window)
            IN  /\ Len(b.cols) = n
                /\ n >= 2
                /\ \A j \in 1..n :
                      /\ b.cols[j].den = n - 1
                      /\ b.window.start * (n - 1) <= b.cols[j].t
                      /\ b.cols[j].t <= b.window.end * (n - 1)
                /\ b.cols[1].t = b.window.start * (n - 1)
                /\ b.cols[n].t = b.window.end * (n - 1)
                /\ \A j \in 1..(n - 1) :
                      /\ b.cols[j + 1].t - b.cols[j].t = b.window.end - b.window.start
                      /\ b.cols[j + 1].t - b.cols[j].t > 60 * (n - 1)

\* a run that propagated two windows, one of them with three samples or more
C25_Witness ==
    /\ BuildRan
    /\ Cardinality(BuildBlocks) >= 2
    /\ \E b \in BuildBlocks : Len(b.cols) >= 3

\* C26: the time row of the matrix the builder writes is strictly increasing
\* inside each window's block and monotonically increasing over the whole
\* concatenation: the first sample of a block is not earlier than the last
\* sample of the block before it.
C26_TimeRowMonotone ==
    (BuildRan /\ build_out.report = "completed") =>
        LET cols == archive[build_out.norad_id].data
        IN  /\ Len(cols) = Len(SurvivingSamples)
            /\ \A j \in 1..(Len(cols) - 1) :
                  IF cols[j].tle = cols[j + 1].tle
                  THEN cols[j].t * cols[j + 1].den < cols[j + 1].t * cols[j].den
                  ELSE cols[j].t * cols[j + 1].den <= cols[j + 1].t * cols[j].den

\* a written matrix of two blocks that share their boundary time
C26_Witness ==
    /\ BuildRan /\ build_out.report = "completed"
    /\ LET cols == archive[build_out.norad_id].data
       IN  \E j \in 1..(Len(cols) - 1) :
              /\ cols[j].tle # cols[j + 1].tle
              /\ cols[j].t * cols[j + 1].den = cols[j + 1].t * cols[j].den
              /\ j >= 2 /\ cols[j - 1].tle = cols[j].tle

(***************************************************************************)
(* The kernel's choice of the field-of-view formula, lines 154-164, for    *)
(* settings of MIN_HORIZON_ELEVATION from 0 and 1e-8 to 1e8 degrees and    *)
(* interpolated radii below, at and above the Earth's radius.              *)
(***************************************************************************)
MaxExponent == 8
Elevations == {[m |-> 0, e |-> 0]} \cup [m : {1}, e : (-MaxExponent)..MaxExponent]
Radii == {Fin(6000), Fin(EARTH_RADIUS), Fin(7000), Fin(12742), Fin(42164), Inf}

InitFov ==
    /\ fov \in [status : {"interpolated"}, elevation : Elevations, sat_interp_alt : Radii]
    /\ fetch = Idle /\ pool = Idle /\ search = Idle /\ handles = Idle
    /\ archive = Idle /\ store = Idle /\ history = Idle
    /\ build_out = Idle /\ tle_table = Idle /\ records = Idle
    /\ sat_track = Idle /\ vessel_points = Idle
    /\ kernel_out = Idle /\ hits_out = Idle
    /\ tle_times = Idle /\ windows = Idle
    /\ vessels = Idle /\ interp_out = Idle

\* lines 154-164: the clamp of the radius and the choice of the formula
SelectFov ==
    /\ fov.status = "interpolated"
    /\ LET alt == ClampAlt(fov.sat_interp_alt, 1)
       IN  fov' = [status |-> "selected", elevation |-> fov.elevation,
                   sat_interp_alt |-> alt, formula |-> FovBranchFor(fov.elevation, alt)]
    /\ UNCHANGED <<fetch, pool, search, handles>>
    /\ UNCHANGED <<archive, store, history, build_out, tle_table, records>>
    /\ UNCHANGED <<sat_track, vessel_points, kernel_out, hits_out,
                   tle_times, windows, vessels, interp_out>>

NextFov == SelectFov

SpecFov == InitFov /\ [][NextFov]_vars

\* C27: for a finite interpolated radius (clamped to at least the Earth
\* radius) the tangent-limit formula is used only when the minimum horizon
\* elevation is below 1e-6, and for any elevation >= 1e-6 the general
\* formula; for an infinite radius the half-angle is pi/2.
C27_TangentOnlyBelowMicroDegree ==
    fov.status = "selected" =>
        IF fov.sat_interp_alt.k = "inf" THEN fov.formula = "half_earth"
        ELSE /\ fov.sat_interp_alt.v >= EARTH_RADIUS
             /\ fov.formula = "tangent" => BelowPowerOfTen(fov.elevation, -6)
             /\ ~BelowPowerOfTen(fov.elevation, -6) => fov.formula = "general"

\* what the kernel does: the tangent-limit formula for every elevation below
\* 1e6 degrees
TangentBelowMillionDegrees ==
    fov.status = "selected" =>
        IF fov.sat_interp_alt.k = "inf" THEN fov.formula = "half_earth"
        ELSE /\ fov.sat_interp_alt.v >= EARTH_RADIUS
             /\ fov.formula = (IF BelowPowerOfTen(fov.elevation, 6)
                               THEN "tangent" ELSE "general")

(***************************************************************************)
(* compute_hits for every count of clipped pings and of workers (SpecHits) *)
(***************************************************************************)
\* C28: for every clipped ping count n >= 1 and every worker count, given by
\* the caller or chosen by compute_hits, the call completes without error and
\* every one of the n pings is evaluated by exactly one kernel call: the mask
\* has one cell for each, also when n is smaller than the worker count.
C28_DispatchCompletesForEveryCount ==
    (HitsCalled /\ Len(ClipRows) >= 1) =>
        /\ hits_out.res.status = "ok"
        /\ Len(hits_out.res.mask) = Len(ClipRows)

\* what holds: the call completes exactly when every chunk holds a ping
DispatchCompletesIffChunksNonEmpty ==
    (HitsCalled /\ Len(ClipRows) >= 1) =>
        LET workers == ChooseWorkers(hits_out.workers, Len(ClipRows))
        IN  IF workers > 1 /\ Len(ClipRows) < workers
            THEN hits_out.res.status = "ValueError"
            ELSE /\ hits_out.res.status = "ok"
                 /\ Len(hits_out.res.mask) = Len(ClipRows)

(***************************************************************************)
(* find_sats of hit_finder.py and of reverse-hit-finder.py, one satellite  *)
(* of the archive per step.  The archive holds a stored track (columns     *)
(* [t, lat, lon, alt]) for each norad id, in the order get_norad_ids lists *)
(* them.                                                                   *)
(***************************************************************************)
\* get_precomputed_df: the columns of get_precomputed_tracks as a frame
get_precomputed_df(array_node, start, end) ==
    LET cols == get_precomputed_tracks(array_node, start, end)
    IN  [i \in 1..Len(cols) |-> [date_time |-> cols[i].t, lat |-> cols[i].lat,
                                 lon |-> cols[i].lon, alt |-> cols[i].alt]]

SearchTracks ==
    {[i \in 1..Len(t) |-> [t |-> t[i], lat |-> 0, lon |-> 0, alt |-> 12742]] :
        t \in {t \in UNION {[1..m -> Times] : m \in 1..3} : StrictlyIncreasing(t)}}
\* the AIS rows load_ais_for_times returns: none, one ping of the vessel, or
\* four pings of the vessel among those of another
SearchPings ==
    {<<>>,
     <<[mmsi_id |-> 1, date_time |-> 1, lat |-> 0, lon |-> 3]>>,
     <<[mmsi_id |-> 1, date_time |-> 1, lat |-> 0, lon |-> 3],
       [mmsi_id |-> 2, date_time |-> 1, lat |-> 0, lon |-> 9],
       [mmsi_id |-> 1, date_time |-> 2, lat |-> 0, lon |-> 3],
       [mmsi_id |-> 1, date_time |-> 2, lat |-> 0, lon |-> 9],
       [mmsi_id |-> 1, date_time |-> 2, lat |-> 0, lon |-> 15]>>}

InitSearch ==
    /\ \E variant \in {"hit_finder", "reverse_hit_finder"},
          tracks \in [NoradIds -> SearchTracks], ais \in SearchPings,
          start_time \in {0, 1, 2}, end_time \in {3, 4} :
          search = [status |-> "called", variant |-> variant, ids |-> <<5, 7>>,
                    tracks |-> tracks, all_ais |-> ais, mmsi |-> 1,
                    start_time |-> start_time, end_time |-> end_time]
    /\ fetch = Idle /\ pool = Idle /\ handles = Idle /\ fov = Idle
    /\ archive = Idle /\ store = Idle /\ history = Idle
    /\ build_out = Idle /\ tle_table = Idle /\ records = Idle
    /\ sat_track = Idle /\ vessel_points = Idle
    /\ kernel_out = Idle /\ hits_out = Idle
    /\ tle_times = Idle /\ windows = Idle
    /\ vessels = Idle /\ interp_out = Idle

SearchUnchanged ==
    /\ UNCHANGED <<fetch, pool, handles, fov>>
    /\ UNCHANGED <<archive, store, history, build_out, tle_table, records>>
    /\ UNCHANGED <<sat_track, vessel_points, kernel_out, hits_out,
                   tle_times, windows, vessels, interp_out>>

\* the head of find_sats: the ids, the AIS rows and the filter on the vessel;
\* reverse-hit-finder.py leaves by sys.exit() when there are no AIS rows
FindSatsLoad ==
    /\ search.status = "called"
    /\ LET ais == SelectSeq(search.all_ais, LAMBDA r : r.mmsi_id = search.mmsi)
           loaded == [status |-> "looping", variant |-> search.variant, ids |-> search.ids,
                      tracks |-> search.tracks, all_ais |-> search.all_ais,
                      mmsi |-> search.mmsi, start_time |-> search.start_time,
                      end_time |-> search.end_time, ais |-> ais, next |-> 1,
                      vis_sat |-> <<>>, skipped |-> {}]
       IN  IF search.variant = "reverse_hit_finder" /\ Len(search.all_ais) = 0
           THEN search' = [loaded EXCEPT !.status = "SystemExit"]
           ELSE search' = loaded
    /\ SearchUnchanged

\* one pass of the loop over the ids: an empty track is skipped, an
\* exception of compute_hits leaves the loop and the function
FindSatsExamine ==
    /\ search.status = "looping"
    /\ search.next <= Len(search.ids)
    /\ LET s_id == search.ids[search.next]
           sat == get_precomputed_df(search.tracks[s_id], search.start_time,
                                     search.end_time)
           hits == compute_hits(sat, search.ais, Some(search.start_time),
                                Some(search.end_time), None, FALSE, FALSE)
       IN  IF Len(sat) = 0
           THEN search' = [search EXCEPT !.next = @ + 1, !.skipped = @ \cup {s_id}]
           ELSE IF hits.status # "ok"
           THEN search' = [search EXCEPT !.status = hits.status]
           ELSE search' = [search EXCEPT
                             !.next = @ + 1,
                             !.vis_sat = IF Len(hits.hits) > 0
                                         THEN Append(@, s_id) ELSE @]
    /\ SearchUnchanged

\* the end of the loop: reverse-hit-finder.py returns vis_sat, hit_finder.py
\* prints its length and ends without a return statement
FindSatsReturn ==
    /\ search.status = "looping"
    /\ search.next > Len(search.ids)
    /\ search' = [search EXCEPT !.status = IF search.variant = "reverse_hit_finder"
                                           THEN "returned_list" ELSE "returned_none"]
    /\ SearchUnchanged

NextSearch == FindSatsLoad \/ FindSatsExamine \/ FindSatsReturn

SpecSearch == InitSearch /\ [][NextSearch]_vars

\* the samples of satellite s_id inside [start_time, end_time)
SearchSamples(s_id) ==
    get_precomputed_df(search.tracks[s_id], search.start_time, search.end_time)

\* C29: find_sats examines every satellite id of the archive and always
\* returns its list: a satellite whose stored track has fewer than 2 samples
\* inside [start_time, end_time] is skipped and never aborts the search over
\* the remaining satellites.
C29_SearchSkipsShortTracks ==
    /\ search.status \notin {"idle", "called", "looping"} =>
          /\ search.status = "returned_list"
          /\ search.next = Len(search.ids) + 1
    /\ search.status = "returned_list" =>
          \A k \in 1..Len(search.ids) :
              Len(SearchSamples(search.ids[k])) < 2 =>
                  \A j \in 1..Len(search.vis_sat) : search.vis_sat[j] # search.ids[k]

\* the vessel's pings inside [start_time, end_time]
SearchPingCount ==
    Cardinality({i \in 1..Len(search.ais) :
                    /\ search.start_time <= search.ais[i].date_time
                    /\ search.ais[i].date_time <= search.end_time})

\* what holds for reverse-hit-finder.py: with AIS rows loaded and at least
\* four pings of the vessel inside the range, the search returns its list
\* exactly when no satellite has a single sample inside the range
SearchReturnsUnlessSingleSample ==
    (/\ search.status \notin {"idle", "called", "looping"}
     /\ search.variant = "reverse_hit_finder"
     /\ Len(search.all_ais) > 0
     /\ SearchPingCount >= 4) =>
        IF \E k \in 1..Len(search.ids) : Len(SearchSamples(search.ids[k])) = 1
        THEN search.status = "ValueError"
        ELSE /\ search.status = "returned_list"
             /\ \A k \in 1..Len(search.ids) :
                   Len(SearchSamples(search.ids[k])) = 0 => search.ids[k] \in search.skipped

(***************************************************************************)
(* One SatelliteDataStore object and its file handles.  _handles maps a    *)
(* key (norad_id, mode) to the number of the handle cached under it, 0 for *)
(* no entry; opened is the set of the handles open_file returned that are  *)
(* not closed; reopened is a ghost: open_file was called for a key that    *)
(* had a cached handle, and opened the file.  open_file refuses a file     *)
(* that this process holds open unless request and open handles are all    *)
(* read-only, as AlreadyOpen has it.                                       *)
(***************************************************************************)
MaxCalls == 3
HandleKeys == NoradIds \X {"r", "w"}

\* _open_file_for_id, lines 249-256: open_file(path_to_file, mode) is an
\* argument of setdefault and so is called whether or not the key is cached
_open_file_for_id(st, norad_id, mode) ==
    LET held(m) == \E o \in st.opened : o.norad_id = norad_id /\ o.mode = m
        key == <<norad_id, mode>>
        h == st.calls + 1
        new == [h |-> h, norad_id |-> norad_id, mode |-> mode]
    IN  IF mode = "r" /\ ~st.files[norad_id]
        THEN [status |-> "IOError", st |-> st]
        ELSE IF (mode = "r" /\ held("w")) \/ (mode = "w" /\ (held("r") \/ held("w")))
        THEN [status |-> "ValueError", st |-> st]
        ELSE [status |-> "ok",
              st |-> [st EXCEPT
                        !.files[norad_id] = TRUE,
                        !.opened = @ \cup {new},
                        !._handles[key] = IF @ = 0 THEN h ELSE @,
                        !.reopened = @ \/ st._handles[key] # 0]]

\* _close, lines 260-267
_close(st, norad_id, mode) ==
    LET key == <<norad_id, mode>>
    IN  IF st._handles[key] # 0
        THEN [st EXCEPT !.opened = {o \in @ : o.h # st._handles[key]},
                        !._handles[key] = 0]
        ELSE st

InitHandles ==
    /\ \E files \in [NoradIds -> BOOLEAN] :
          handles = [status |-> "store", files |-> files,
                     _handles |-> [key \in HandleKeys |-> 0], opened |-> {},
                     reopened |-> FALSE, calls |-> 0, last |-> "none"]
    /\ fetch = Idle /\ pool = Idle /\ search = Idle /\ fov = Idle
    /\ archive = Idle /\ store = Idle /\ history = Idle
    /\ build_out = Idle /\ tle_table = Idle /\ records = Idle
    /\ sat_track = Idle /\ vessel_points = Idle
    /\ kernel_out = Idle /\ hits_out = Idle
    /\ tle_times = Idle /\ windows = Idle
    /\ vessels = Idle /\ interp_out = Idle

HandlesUnchanged ==
    /\ UNCHANGED <<fetch, pool, search, fov>>
    /\ UNCHANGED <<archive, store, history, build_out, tle_table, records>>
    /\ UNCHANGED <<sat_track, vessel_points, kernel_out, hits_out,
                   tle_times, windows, vessels, interp_out>>

\* the call made: counted, and its outcome kept
Called(st, outcome) == [st EXCEPT !.calls = @ + 1, !.last = outcome]

\* get_timespan, lines 240-247: the read handle stays open
CallGetTimespan(norad_id) ==
    /\ handles.calls < MaxCalls
    /\ LET f == _open_file_for_id(handles, norad_id, "r")
       IN  handles' = Called(f.st, f.status)
    /\ HandlesUnchanged

\* get_precomputed_tracks, lines 301-314: the handle cached under
\* (norad_id, "r") is closed after the read
CallGetTracks(norad_id) ==
    /\ handles.calls < MaxCalls
    /\ LET f == _open_file_for_id(handles, norad_id, "r")
       IN  handles' = IF f.status = "ok"
                      THEN Called(_close(f.st, norad_id, "r"), "ok")
                      ELSE Called(f.st, f.status)
    /\ HandlesUnchanged

\* put_precomputed_tracks, lines 276-284: the write handle stays open
CallPutTracks(norad_id) ==
    /\ handles.calls < MaxCalls
    /\ LET f == _open_file_for_id(handles, norad_id, "w")
       IN  handles' = Called(f.st, f.status)
    /\ HandlesUnchanged

CallClose(norad_id, mode) ==
    /\ handles.calls < MaxCalls
    /\ handles' = Called(_close(handles, norad_id, mode), "ok")
    /\ HandlesUnchanged

NextHandles ==
    \/ \E norad_id \in NoradIds : CallGetTimespan(norad_id)
    \/ \E norad_id \in NoradIds : CallGetTracks(norad_id)
    \/ \E norad_id \in NoradIds : CallPutTracks(norad_id)
    \/ \E norad_id \in NoradIds, mode \in {"r", "w"} : CallClose(norad_id, mode)

SpecHandles == InitHandles /\ [][NextHandles]_vars

\* C30: after any sequence of get_timespan, get_precomputed_tracks,
\* put_precomputed_tracks and _close calls every file that _open_file_for_id
\* has opened and that is not yet closed is recorded in _handles under its
\* key, so at most one open handle exists per (norad_id, mode), and no call
\* opens the file again while a handle for its key is cached.
C30_OpenFilesAreCached ==
    handles.status = "store" =>
        /\ \A o \in handles.opened : handles._handles[<<o.norad_id, o.mode>>] = o.h
        /\ \A key \in HandleKeys :
              Cardinality({o \in handles.opened : <<o.norad_id, o.mode>> = key}) <= 1
        /\ ~handles.reopened

\* what holds: a cached handle is open and belongs to its key, and a file is
\* never open twice for writing
CachedHandlesAreOpen ==
    handles.status = "store" =>
        /\ \A key \in HandleKeys :
              handles._handles[key] # 0 =>
                  [h |-> handles._handles[key], norad_id |-> key[1], mode |-> key[2]]
                      \in handles.opened
        /\ \A norad_id \in NoradIds :
              Cardinality({o \in handles.opened :
                              o.norad_id = norad_id /\ o.mode = "w"}) <= 1

====
